---- MODULE Spec2Model ----
(***************************************************************************)
(* Model of the bigo tiered routing engine: the Conductor pipeline         *)
(* (internal/conductor/conductor.go), the tier policy table                *)
(* (pkg/types/types.go), the worker handles' availability flag             *)
(* (internal/workers/*.go) and the SQLite ledger                           *)
(* (internal/ledger/ledger.go).                                            *)
(*                                                                         *)
(* Concurrent Run and DryRun calls are modelled as one record per calling  *)
(* goroutine.  Every step that reads or writes shared state (a ledger      *)
(* statement, a read of the registry and of a handle's availability flag,  *)
(* the two writes of the flag inside Execute, the map write of             *)
(* RegisterWorker, each statement of GetStats) is one action, so that all  *)
(* interleavings of concurrent calls are explored.  The availability flag  *)
(* is a plain bool without synchronisation; the outcomes of its data race  *)
(* are the interleavings of its reads and writes.  The registry is a map   *)
(* without a lock: a RegisterWorker at the same time as a lookup is seen   *)
(* by the lookup or not, or the runtime stops the program.  A handle that  *)
(* RegisterWorker replaces stays the handle of the calls that resolved it. *)
(***************************************************************************)
EXTENDS Integers, Sequences, FiniteSets, TLC

VARIABLES
    workers,      \* Conductor.workers: the backend identities that have a handle (in
                  \* SpecRegistry the map itself, from the identity to its handle)
    available,    \* the `available` field of the registered handle of each backend
    tasks,        \* ledger table tasks: id -> row
    executions,   \* ledger table executions: id -> row
    runs,         \* per caller, the local state of its Run call and what it returned
    title,        \* the title given to Classifier.Classify
    description,  \* the description given to Classifier.Classify
    classification, \* what the last call of Classify on them returned
    cancelled,    \* the callers whose context is cancelled
    cli,          \* the state of the `bigo run` command: its configuration and flags
    lastCall,     \* the last call of an operation that is examined on its own, and
                  \* what it returned
    statsCall,    \* a call of Ledger.GetStats: its next statement and the Stats it
                  \* has filled in so far
    pool,         \* a workers.Pool, its workers, and what its callers hold
    fatal         \* the fatal error with which the Go runtime has stopped the
                  \* program, "" while the program runs

vars ==
    <<workers, available, tasks, executions, runs, title, description, classification,
      cancelled, cli, lastCall, statsCall, pool, fatal>>

\* The state of the Conductor, its handles and its ledger, and the state of a
\* Classifier used on its own.
conductorVars == <<workers, available, tasks, executions, runs>>
classifierVars == <<title, description, classification>>
commandVars == <<cancelled, cli>>
callVars == <<lastCall, statsCall>>
poolVars == <<pool>>

----------------------------------------------------------------------------
\* Bounds of the model.

\* Size of the space generateID draws from (4 random bytes in the code).
NumIDs == 2
\* Largest number of backend identities with a handle in the registry of the
\* Conductor.
MaxWorkers == 3
\* Largest number of models in the configuration of `bigo run`.
MaxModels == 2
\* Largest number of words of a task title.
MaxWords == 3
\* Largest number of words of the title of a task given to Run or DryRun.
MaxRunWords == 2
\* Largest maxWorkers of a Pool.
MaxPoolWorkers == 2

IDs == 1..NumIDs

\* What generateID may return for a row of a table: four random bytes, which
\* are the id of a row the table has or a new id.  The ids are opaque, and
\* the new ones are numbered in the order in which they are drawn.
generateID(rows) ==
    LET unused == IDs \ DOMAIN rows
    IN DOMAIN rows \cup
          (IF unused = {} THEN {}
           ELSE {CHOOSE i \in unused : \A j \in unused : i <= j})

\* The goroutines that call Conductor.Run, one call each, in any interleaving
\* (one after the other, or at the same time).  They are numbered in the
\* order in which their calls start.
CallerOrder == <<"c1", "c2">>
Callers == {CallerOrder[i] : i \in DOMAIN CallerOrder}

----------------------------------------------------------------------------
\* pkg/types/types.go

TierTrivial == 0
TierSimple == 1
TierStandard == 2
TierComplex == 3
TierCritical == 4
Tiers == TierTrivial..TierCritical

BackendClaudeOpus == "claude:opus"
BackendClaudeSonnet == "claude:sonnet"
BackendClaudeHaiku == "claude:haiku"
BackendOllamaFast == "ollama:fast"
BackendOllama == "ollama:default"
BackendOllamaReason == "ollama:reasoning"
Backends == {BackendClaudeOpus, BackendClaudeSonnet, BackendClaudeHaiku,
             BackendOllamaFast, BackendOllama, BackendOllamaReason}

\* The Gemini backends `bigo run` registers.  No tier's policy or fallback
\* list names them, so the Conductor never looks their handles up.
BackendGeminiPro == "gemini:pro"
BackendGeminiFlash == "gemini:flash"
GeminiBackends == {BackendGeminiPro, BackendGeminiFlash}
ClaudeBackends == {BackendClaudeOpus, BackendClaudeSonnet, BackendClaudeHaiku}

StatusPending == "pending"
StatusAssigned == "assigned"
StatusWorking == "working"
StatusValidating == "validating"
StatusApproved == "approved"
StatusRejected == "rejected"
StatusDone == "done"
StatusFailed == "failed"
TaskStatuses ==
    {StatusPending, StatusAssigned, StatusWorking, StatusValidating, StatusApproved,
     StatusRejected, StatusDone, StatusFailed}

TierConfig(primary, validator, count, approvals) ==
    [PrimaryBackend |-> primary, ValidatorBackend |-> validator,
     ValidatorCount |-> count, RequiredApprovals |-> approvals]

DefaultTierConfigs ==
    (TierTrivial :> TierConfig(BackendOllamaFast, "", 0, 0)) @@
    (TierSimple :> TierConfig(BackendOllama, BackendOllama, 1, 1)) @@
    (TierStandard :> TierConfig(BackendClaudeSonnet, BackendClaudeSonnet, 2, 2)) @@
    (TierComplex :> TierConfig(BackendClaudeSonnet, BackendClaudeSonnet, 3, 2)) @@
    (TierCritical :> TierConfig(BackendClaudeOpus, BackendClaudeSonnet, 5, 4))

----------------------------------------------------------------------------
\* internal/conductor/classifier.go

\* A text is the sequence of its words, which single spaces separate.  The
\* words of the model are whole words: none of them has a cue of the
\* classifier as a proper part.
Vocabulary ==
    {"typo", "authentication", "payment", "refactor", "add", "validation",
     "across", "entire", "codebase"}

\* The titles of at most MaxWords words, and the descriptions given with them.
Titles == UNION {[1..n -> Vocabulary] : n \in 0..MaxWords}
Descriptions == {<<>>, <<"in", "this", "file">>, <<"Across", "the", "entire", "codebase">>}

\* strings.ToLower, word by word.
ToLowerWord(word) == IF word = "Across" THEN "across" ELSE word
ToLower(words) == [i \in DOMAIN words |-> ToLowerWord(words[i])]

\* `text := strings.ToLower(title + " " + description)`
Text(t, d) == ToLower(t \o d)

\* One piece of a pattern's regular expression: a group of alternative words,
\* optional when the group is followed by `?`.  The pieces are separated by
\* `\s+`.
One(words) == [words |-> words, optional |-> FALSE]
Opt(words) == [words |-> words, optional |-> TRUE]

Pattern(name, regex, weight) == [Name |-> name, Regex |-> regex, Weight |-> weight]

\* Classifier.patterns as initPatterns fills it: per tier the patterns in the
\* order of the slice.  A Regex is the set of its top-level alternatives; a
\* Weight is in tenths.
initPatterns ==
    (TierTrivial :> <<
        Pattern("typo", {<<One({"typo", "spelling", "spelt", "misspell"})>>}, 9),
        Pattern("format", {<<One({"format", "indent", "whitespace", "spacing"})>>}, 8),
        Pattern("comment", {<<One({"add", "update", "fix"}), Opt({"a"}), One({"comment"})>>}, 8),
        Pattern("rename_local", {<<One({"rename"}), Opt({"the"}),
                                   One({"variable", "param", "local"})>>}, 7),
        Pattern("simple_string", {<<One({"change", "update"}), Opt({"the"}),
                                    One({"string", "text", "message", "label"})>>}, 6),
        Pattern("import", {<<One({"add", "remove", "fix"}), Opt({"a", "an"}),
                             One({"import"})>>}, 7) >>) @@
    (TierSimple :> <<
        Pattern("add_function", {<<One({"add"}), Opt({"a"}), Opt({"simple"}),
                                   One({"function", "method", "helper"})>>}, 7),
        Pattern("fix_bug_obvious", {<<One({"fix"}), Opt({"the"}),
                                      One({"bug", "issue", "error", "crash"}),
                                      One({"in", "where", "when"})>>}, 6),
        Pattern("update_config", {<<One({"update", "change", "modify"}), Opt({"the"}),
                                    One({"config"})>>}, 7),
        Pattern("add_field", {<<One({"add"}), Opt({"a"}), Opt({"new"}),
                                One({"field", "property", "attribute"})>>}, 6),
        Pattern("simple_validation", {<<One({"add"}), Opt({"simple"}),
                                        One({"validation"})>>}, 6),
        Pattern("update_constant", {<<One({"update", "change"}), Opt({"the"}),
                                      One({"constant", "value", "default"})>>}, 7) >>) @@
    (TierStandard :> <<
        Pattern("new_feature", {<<One({"implement", "create", "build", "add"}), Opt({"a"}),
                                  Opt({"new"}), One({"feature"})>>}, 7),
        Pattern("refactor", {<<One({"refactor"})>>}, 6),
        Pattern("add_tests", {<<One({"add", "write", "create"}), Opt({"unit"}),
                                One({"test", "tests"})>>}, 6),
        Pattern("api_endpoint", {<<One({"add", "create", "implement"}), Opt({"a", "an"}),
                                   Opt({"api"}), One({"endpoint"})>>}, 7),
        Pattern("component", {<<One({"create", "build", "add"}), Opt({"a"}), Opt({"new"}),
                                One({"component"})>>}, 6),
        Pattern("integration", {<<One({"integrate", "integration"})>>}, 5) >>) @@
    (TierComplex :> <<
        Pattern("architecture", {<<One({"architect", "redesign", "restructure"})>>}, 8),
        Pattern("migration", {<<One({"migrat"})>>, <<One({"data"}), One({"migration"})>>}, 8),
        Pattern("cross_cutting", {<<One({"across", "throughout", "all"}), Opt({"the"}),
                                    One({"codebase", "project", "system"})>>}, 7),
        Pattern("api_breaking", {<<One({"breaking"}), One({"change"})>>}, 8),
        Pattern("multiple_services", {<<One({"multiple"}),
                                        One({"services", "systems", "components"})>>}, 7),
        Pattern("database_schema", {<<One({"database", "db"}), One({"schema"})>>}, 7) >>) @@
    (TierCritical :> <<
        Pattern("security", {<<One({"security", "vulnerab", "exploit", "injection", "xss",
                                    "csrf", "auth", "authentication", "authorization"})>>}, 9),
        Pattern("payments", {<<One({"payment", "billing", "transaction", "money",
                                    "financial"})>>}, 9),
        Pattern("encryption", {<<One({"encrypt", "decrypt", "crypto", "hash", "secret",
                                      "credential"})>>}, 8),
        Pattern("core_algorithm", {<<One({"core"}), One({"algorithm", "logic", "system"})>>}, 8),
        Pattern("production_data", {<<One({"production"}),
                                      One({"data", "database", "system"})>>}, 9),
        Pattern("user_data", {<<One({"user", "customer", "personal"}), One({"data"})>>}, 8) >>)

\* The pieces of `alt` from the k-th on match the words of `text` from the
\* i-th on.
RECURSIVE MatchAt(_, _, _, _)
MatchAt(alt, text, i, k) ==
    IF k > Len(alt) THEN TRUE
    ELSE \/ /\ i <= Len(text)
            /\ text[i] \in alt[k].words
            /\ MatchAt(alt, text, i + 1, k + 1)
         \/ /\ alt[k].optional
            /\ MatchAt(alt, text, i, k + 1)

\* `p.Regex.MatchString(text)`
MatchString(regex, text) ==
    \E alt \in regex : \E i \in 1..Len(text) : MatchAt(alt, text, i, 1)

\* The inner loop of Classify over the patterns of one tier, after its first
\* n patterns: the weight accumulated and the names appended for the tier.
RECURSIVE ScorePatterns(_, _, _)
ScorePatterns(patterns, text, n) ==
    IF n = 0 THEN [score |-> 0, names |-> <<>>]
    ELSE LET before == ScorePatterns(patterns, text, n - 1)
             p == patterns[n]
         IN IF MatchString(p.Regex, text)
            THEN [score |-> before.score + p.Weight, names |-> Append(before.names, p.Name)]
            ELSE before

\* The maps `scores` and `matchedPatterns` after the first loop of Classify:
\* they have an entry for the tiers with a matching pattern only.
ScoreMaps(text) ==
    LET all == {[tier |-> tier,
                 got |-> ScorePatterns(initPatterns[tier], text, Len(initPatterns[tier]))] :
                    tier \in DOMAIN initPatterns}
        of(tier) == (CHOOSE r \in all : r.tier = tier).got
        scored == {r.tier : r \in {q \in all : q.got.names # <<>>}}
    IN [scores |-> [tier \in scored |-> of(tier).score],
        matchedPatterns |-> [tier \in scored |-> of(tier).names]]
Scores(text) == ScoreMaps(text).scores
MatchedPatterns(text) == ScoreMaps(text).matchedPatterns
ScoredTiers(text) == DOMAIN Scores(text)

\* The orders in which a `range` over a map with these keys can visit them:
\* Go leaves the iteration order of a map unspecified.
Orders(keys) ==
    {order \in [1..Cardinality(keys) -> keys] :
        \A i, j \in DOMAIN order : i # j => order[i] # order[j]}

\* A loop that keeps the first tier it visits, whatever its score.
HighestScoring_FirstVisited(order, scores, matchedPatterns, n) ==
    IF n = 0 THEN [maxScore |-> 0, Tier |-> TierStandard, Patterns |-> <<>>]
    ELSE [maxScore |-> scores[order[1]], Tier |-> order[1],
          Patterns |-> matchedPatterns[order[1]]]

\* The second loop of Classify, "find highest scoring tier", after it has
\* visited the first n tiers of `order`.
RECURSIVE HighestScoring(_, _, _, _)
HighestScoring(order, scores, matchedPatterns, n) ==
    IF n = 0 THEN [maxScore |-> 0, Tier |-> TierStandard, Patterns |-> <<>>]
    ELSE LET before == HighestScoring(order, scores, matchedPatterns, n - 1)
             tier == order[n]
             score == scores[tier]
         IN IF score > before.maxScore
            THEN [maxScore |-> score, Tier |-> tier, Patterns |-> matchedPatterns[tier]]
            ELSE before

\* Confidence in thousandths: `min(0.95, 0.5+(maxScore*0.15))`, 0.5 without
\* a match.
Confidence(maxScore) ==
    IF maxScore > 0
    THEN IF 500 + maxScore * 15 < 950 THEN 500 + maxScore * 15 ELSE 950
    ELSE 500

\* strings.Contains(text, phrase) for a phrase of whole words.
Contains(text, phrase) ==
    \E i \in 0..(Len(text) - Len(phrase)) :
        \A k \in 1..Len(phrase) : text[i + k] = phrase[k]

estimateLines(text) ==
    IF Contains(text, <<"single", "line">>) \/ Contains(text, <<"one", "line">>) THEN 1
    ELSE IF Contains(text, <<"few", "lines">>) THEN 5
    ELSE IF Contains(text, <<"small">>) \/ Contains(text, <<"minor">>) THEN 20
    ELSE IF \/ Contains(text, <<"large">>) \/ Contains(text, <<"major">>)
            \/ Contains(text, <<"significant">>) THEN 200
    ELSE IF \/ Contains(text, <<"entire">>) \/ Contains(text, <<"complete">>)
            \/ Contains(text, <<"full">>) THEN 500
    ELSE 50

\* A file estimate whose default is the estimate for a whole codebase.
estimateFiles_DefaultCodebase(text) == 20

estimateFiles(text) ==
    IF \/ Contains(text, <<"single", "file">>) \/ Contains(text, <<"one", "file">>)
       \/ Contains(text, <<"this", "file">>) THEN 1
    ELSE IF Contains(text, <<"multiple", "file">>) \/ Contains(text, <<"several", "file">>)
         THEN 5
    ELSE IF Contains(text, <<"across">>) \/ Contains(text, <<"throughout">>) THEN 10
    ELSE IF Contains(text, <<"codebase">>) \/ Contains(text, <<"project-wide">>) THEN 20
    ELSE 2

\* An adjustment that sets the tier of the scope whatever the tier was.
adjustTierByScope_Override(tier, lines, files) ==
    IF lines > 500 \/ files > 10 THEN TierComplex
    ELSE IF lines > 200 \/ files > 5 THEN TierStandard
    ELSE IF lines < 10 /\ files = 1 THEN TierSimple
    ELSE tier

adjustTierByScope(tier, lines, files) ==
    IF (lines > 500 \/ files > 10) /\ tier < TierComplex THEN TierComplex
    ELSE IF (lines > 200 \/ files > 5) /\ tier < TierStandard THEN TierStandard
    ELSE IF (lines < 10 /\ files = 1) /\ tier > TierSimple THEN TierSimple
    ELSE tier

recommendBackend(tier) ==
    IF tier \in DOMAIN DefaultTierConfigs
    THEN DefaultTierConfigs[tier].PrimaryBackend
    ELSE BackendClaudeSonnet

\* Classifier.Classify when the second loop visits the scored tiers in `order`.
ClassifyIn(t, d, order) ==
    LET text == Text(t, d)
        maps == ScoreMaps(text)
        highest == HighestScoring(order, maps.scores, maps.matchedPatterns, Len(order))
        lines == estimateLines(text)
        files == estimateFiles(text)
        tier == adjustTierByScope(highest.Tier, lines, files)
    IN [Tier |-> tier, Confidence |-> Confidence(highest.maxScore),
        Patterns |-> highest.Patterns, EstimatedLines |-> lines,
        EstimatedFiles |-> files, RecommendedBackend |-> recommendBackend(tier)]

\* The results Classify can return for an input.
ClassifyResults(t, d) ==
    {ClassifyIn(t, d, order) : order \in Orders(ScoredTiers(Text(t, d)))}

\* No call of Classify has returned yet.
NoClassification == [Tier |-> -1]

\* No `bigo run` command is running.
NoCommand == [pc |-> "none"]

\* No call of an operation examined on its own has returned yet.
NoCall == [op |-> "none"]

\* No call of GetStats has been made.
NoStats == [pc |-> 0]

\* No Pool has been created.
NoPool == [maxWorkers |-> 0]

\* The titles of the tasks given to Run and DryRun.
RunTitles == UNION {[1..n -> Vocabulary] : n \in 0..MaxRunWords}

\* What Run reads of the classifications of its inputs: the tier and the
\* recommended backend.
Routings ==
    {[Tier |-> cls.Tier, RecommendedBackend |-> cls.RecommendedBackend] :
        cls \in UNION {ClassifyResults(t, d) : t \in RunTitles, d \in Descriptions}}

----------------------------------------------------------------------------
\* internal/conductor/conductor.go: worker resolution

\* A fallback list that lets the two highest tiers degrade to claude:haiku.
fallbacks_Degrading(tier) ==
    CASE tier \in {TierTrivial, TierSimple} ->
            <<BackendOllama, BackendOllamaFast, BackendClaudeHaiku>>
      [] tier = TierStandard ->
            <<BackendClaudeSonnet, BackendOllamaReason, BackendClaudeHaiku>>
      [] tier \in {TierComplex, TierCritical} ->
            <<BackendClaudeOpus, BackendClaudeSonnet, BackendClaudeHaiku>>
      [] OTHER -> <<>>

\* The `fallbacks` slice findFallbackWorker builds for a tier.
fallbacks(tier) ==
    CASE tier \in {TierTrivial, TierSimple} ->
            <<BackendOllama, BackendOllamaFast, BackendClaudeHaiku>>
      [] tier = TierStandard ->
            <<BackendClaudeSonnet, BackendOllamaReason, BackendClaudeHaiku>>
      [] tier \in {TierComplex, TierCritical} ->
            <<BackendClaudeOpus, BackendClaudeSonnet>>
      [] OTHER -> <<>>

\* A lookup that tests only the presence of the handle.
Usable_IgnoresAvailable(backend) == backend \in workers

\* `w, ok := c.workers[backend]; ok && w.Available()`
Usable(backend) == backend \in workers /\ available[backend]

\* What that lookup saw: the backend asked for, whether the map holds a handle
\* for it and, if so, what the handle's Available() returned.
Observe(backend) ==
    [backend |-> backend, registered |-> backend \in workers,
     available |-> backend \in workers /\ available[backend]]

----------------------------------------------------------------------------
\* internal/ledger/ledger.go.  dbErr is the failure of the statement in the
\* database itself (locked or closed database, I/O error).

TaskRow(tier, status, backend) ==
    [tier |-> tier, status |-> status, worker_backend |-> backend]

\* A tasks table without a primary key.
CreateTaskFails_NoPrimaryKey(id, dbErr) == dbErr

\* INSERT INTO tasks: fails on a duplicate primary key.
CreateTaskFails(id, dbErr) == dbErr \/ id \in DOMAIN tasks
CreateTask(id, row) == tasks @@ (id :> row)

\* An UPDATE without its WHERE clause.
UpdateTaskStatus_NoWhere(id, status) ==
    [i \in DOMAIN tasks |-> [tasks[i] EXCEPT !.status = status]]

\* UPDATE tasks SET status = ? WHERE id = ?
UpdateTaskStatus(id, status) ==
    [i \in DOMAIN tasks |->
        IF i = id THEN [tasks[i] EXCEPT !.status = status] ELSE tasks[i]]

ExecutionRow(taskId, backend, status) ==
    [task_id |-> taskId, backend |-> backend, status |-> status]

\* INSERT INTO executions: fails on a duplicate primary key.
CreateExecutionFails(id, dbErr) == dbErr \/ id \in DOMAIN executions
CreateExecution(id, row) == executions @@ (id :> row)

\* The ledger.Task and the ledger.Execution a caller of the Ledger fills in:
\* the fields Run sets, and the cost in cents.  ParentID, ContextPath and the
\* other fields keep their zero values.
Task(id, t, d, tier, status, backend) ==
    [ID |-> id, Title |-> t, Description |-> d, Tier |-> tier, Status |-> status,
     WorkerBackend |-> backend]
Execution(id, taskId, backend, cost, status) ==
    [ID |-> id, TaskID |-> taskId, Backend |-> backend, CostUSD |-> cost, Status |-> status]

\* The columns the INSERT of CreateTask and of CreateExecution fills from the
\* struct; the timestamps, which the database sets from its clock, are not
\* part of a row.
InsertedTask(task) ==
    [title |-> task.Title, description |-> task.Description, tier |-> task.Tier,
     status |-> task.Status, worker_backend |-> task.WorkerBackend]
InsertedExecution(exec) ==
    [task_id |-> exec.TaskID, backend |-> exec.Backend, status |-> exec.Status,
     cost_usd |-> exec.CostUSD]

\* A SELECT that reads the first row of the table.
GetTask_FirstRow(id) ==
    IF DOMAIN tasks = {} THEN [err |-> TRUE]
    ELSE LET first == CHOOSE i \in DOMAIN tasks : TRUE
             row == tasks[first]
         IN [err |-> FALSE,
             task |-> Task(first, row.title, row.description, row.tier, row.status,
                           row.worker_backend)]

\* GetTask: SELECT ... FROM tasks WHERE id = ?, scanned into a Task;
\* sql.ErrNoRows without a row.
GetTask(id) ==
    IF id \notin DOMAIN tasks THEN [err |-> TRUE]
    ELSE LET row == tasks[id]
         IN [err |-> FALSE,
             task |-> Task(id, row.title, row.description, row.tier, row.status,
                           row.worker_backend)]

\* The part of a backend identity up to its colon.
BackendPrefix(backend) ==
    CASE backend \in ClaudeBackends -> "claude:"
      [] backend \in GeminiBackends -> "gemini:"
      [] backend \in {BackendOllamaFast, BackendOllama, BackendOllamaReason} -> "ollama:"
      [] OTHER -> ""

\* A pattern that matches every backend.
Like_Any(backend, prefix) == TRUE

\* `backend LIKE 'prefix%'` (LIKE ignores the case of ASCII letters; the
\* backend identities are lower-case).
Like(backend, prefix) == BackendPrefix(backend) = prefix

\* SELECT COUNT(*) FROM tasks WHERE status IN (...)
CountTasks(statuses) == Cardinality({id \in DOMAIN tasks : tasks[id].status \in statuses})

\* SUM(cost_usd) over a set of execution rows, 0 for none (COALESCE).
RECURSIVE SumCost(_)
SumCost(ids) ==
    IF ids = {} THEN 0
    ELSE LET e == CHOOSE i \in ids : TRUE
         IN executions[e].cost_usd + SumCost(ids \ {e})

\* SELECT COUNT(*), COALESCE(SUM(cost_usd), 0) FROM executions WHERE backend LIKE ...
ClassStats(prefix) ==
    LET ids == {e \in DOMAIN executions : Like(executions[e].backend, prefix)}
    IN [count |-> Cardinality(ids), cost |-> SumCost(ids)]

\* `stats := &Stats{}`.  A cost is in cents; SavingsPercent is the fraction
\* num/den, which the code computes in floating point.
ZeroStats ==
    [TotalTasks |-> 0, PendingTasks |-> 0, CompletedTasks |-> 0, TotalExecutions |-> 0,
     ClaudeTasks |-> 0, ClaudeCost |-> 0, GeminiTasks |-> 0, GeminiCost |-> 0,
     OllamaTasks |-> 0, OllamaCost |-> 0,
     EstimatedSavings |-> 0, SavingsPercent |-> [num |-> 0, den |-> 1]]

\* The number of statements of GetStats.
StatsStatements == 7

\* The k-th statement of GetStats, scanned into the Stats: each is a query of
\* its own, on the rows the database has when it runs.
StatsStatement(k, stats) ==
    CASE k = 1 -> [stats EXCEPT !.TotalTasks = Cardinality(DOMAIN tasks)]
      [] k = 2 -> [stats EXCEPT !.PendingTasks =
                       CountTasks({"pending", "assigned", "working", "validating"})]
      [] k = 3 -> [stats EXCEPT !.CompletedTasks = CountTasks({"done"})]
      [] k = 4 -> [stats EXCEPT !.TotalExecutions = Cardinality(DOMAIN executions)]
      [] k = 5 -> [stats EXCEPT !.ClaudeTasks = ClassStats("claude:").count,
                                !.ClaudeCost = ClassStats("claude:").cost]
      [] k = 6 -> [stats EXCEPT !.GeminiTasks = ClassStats("gemini:").count,
                                !.GeminiCost = ClassStats("gemini:").cost]
      [] k = 7 -> [stats EXCEPT !.OllamaTasks = ClassStats("ollama:").count,
                                !.OllamaCost = ClassStats("ollama:").cost]

\* "Calculate savings": 0.05 dollars for each task that was not run on
\* Claude, less the cost of Gemini, and its share of the estimated cost.
Savings(stats) ==
    LET nonClaudeTasks == stats.OllamaTasks + stats.GeminiTasks
        estimated == nonClaudeTasks * 5 - stats.GeminiCost
        totalEstClaudeCost == stats.ClaudeCost + stats.GeminiCost + estimated
    IN [stats EXCEPT !.EstimatedSavings = estimated,
                     !.SavingsPercent =
                         IF totalEstClaudeCost > 0
                         THEN [num |-> estimated * 100, den |-> totalEstClaudeCost]
                         ELSE [num |-> 0, den |-> 1]]

\* The statements of GetStats from the k-th on, when no statement fails and
\* the rows do not change between them.
RECURSIVE StatsFrom(_, _)
StatsFrom(k, stats) ==
    IF k > StatsStatements THEN stats
    ELSE StatsFrom(k + 1, StatsStatement(k, stats))

\* What GetStats returns when no statement fails and no other statement
\* commits during the call.
GetStats == Savings(StatsFrom(1, ZeroStats))

\* The position of a call of GetStats that has returned, with its Stats or
\* with an error.
StatsDone == StatsStatements + 1

\* The call of GetStats after a statement of another connection has
\* committed: a call in progress has read rows that are no longer those of
\* the database, and what a call returned is no longer looked at.
AfterCommit(changed) ==
    IF ~changed \/ statsCall = NoStats THEN statsCall
    ELSE IF statsCall.pc = StatsDone THEN NoStats
    ELSE [statsCall EXCEPT !.stale = TRUE]

----------------------------------------------------------------------------
\* The state of one Run call and of what it returns.

NoError == ""
ErrNoWorker == "no available worker for this task tier"
ErrExecute == "execute error"
ErrReported == "reported failure"
ErrUnique == "UNIQUE constraint failed: tasks.id"
ErrDatabase == "database error"
ErrNilPointer == "runtime error: invalid memory address or nil pointer dereference"
ErrConcurrentMap == "fatal error: concurrent map read and map write"
ErrConcurrentMapWrites == "fatal error: concurrent map writes"

\* A caller that has not called Run yet.  The fields are the local variables
\* of Run (pc: the position in the function; tier: the classified tier;
\* taskId: task.ID, 0 before the row exists; worker: the backend of the
\* resolved handle; replaced: 0 while that handle is the entry of the
\* registry, and otherwise its rank among the handles of the backend that
\* RegisterWorker has replaced and that calls still hold, the last replaced
\* first; inExecute: the call is inside Execute of its handle; fbidx: the
\* index in the loop of findFallbackWorker; outcome: what Execute
\* returned), what the call has observed and done (checks: what every worker
\* lookup saw; executes: the number of Execute invocations; ledgerErr: a
\* ledger statement of this call returned an error) and what the call
\* returned (kind: nothing yet, an error, or a RunResult with status, error,
\* actual and validationRequired; a "preview" is the RunResult of DryRun, with
\* fallbackBackend and workerAvailable).
Idle ==
    [pc |-> "idle", tier |-> TierStandard, taskId |-> 0, worker |-> "",
     replaced |-> 0, inExecute |-> FALSE, fbidx |-> 0, outcome |-> "", checks |-> <<>>, executes |-> 0,
     classifyCalls |-> 0, fallbackCalls |-> 0, ledgerCalls |-> 0,
     ledgerErr |-> FALSE,
     kind |-> "none", status |-> "", error |-> NoError, actual |-> "",
     validationRequired |-> FALSE, fallbackBackend |-> "", workerAvailable |-> FALSE]

\* A call of Run after `c.classifier.Classify(title, description)`.
Classified == [Idle EXCEPT !.classifyCalls = 1]

\* One more call of a Ledger method by the Run.
LedgerCall(r) == [r EXCEPT !.ledgerCalls = @ + 1]

\* Run after Classify and CreateTask.
NewRun(tier, id) ==
    [LedgerCall(Classified) EXCEPT !.pc = "find", !.tier = tier, !.taskId = id]

\* `return nil, fmt.Errorf(...)` after a ledger error.
ReturnError(r) ==
    [r EXCEPT !.pc = "done", !.kind = "error", !.ledgerErr = TRUE,
              !.replaced = 0, !.fbidx = 0, !.checks = <<>>]

\* `return result, nil`
ReturnResult(r, status, error, validationRequired) ==
    [r EXCEPT !.pc = "done", !.kind = "result", !.status = status,
              !.error = error, !.actual = r.worker,
              !.validationRequired = validationRequired,
              !.fbidx = 0, !.checks = <<>>]

\* A resolution failure handed to the caller as a Go error.
NoWorkerResult_AsError(r) == ReturnError(r)

\* The `worker == nil` branch of Run.
NoWorkerResult(r) == ReturnResult(r, StatusFailed, ErrNoWorker, FALSE)

\* `tierConfig.ValidatorCount > 0`
ValidationRequired(tier) == DefaultTierConfigs[tier].ValidatorCount > 0

\* A final status that is set only when no validation is required.
FinalStatus_Unset(validationRequired) ==
    IF validationRequired THEN "" ELSE StatusDone

\* The status of a successful run: validating when validation is required
\* (and pending, which it always is then), done otherwise.
FinalStatus(validationRequired) ==
    IF validationRequired THEN StatusValidating ELSE StatusDone

\* An Execution row whose TaskID is left at its zero value.
NewExecution_NoTask(id, execId, r) == ExecutionRow(0, r.worker, "completed")

\* An Execution row that records the recommended backend of the tier.
NewExecution_Recommended(id, execId, r) ==
    ExecutionRow(id, recommendBackend(r.tier), "completed")

\* The Execution row Run builds after a successful Execute.
NewExecution(id, execId, r) == ExecutionRow(id, r.worker, "completed")

\* A task row that stores the tier's policy primary whatever Classify
\* recommended.
NewTask_PolicyOfDefault(cls) == TaskRow(cls.Tier, StatusPending, recommendBackend(TierStandard))

\* The Task Run builds from the classification.
NewTask(cls) == TaskRow(cls.Tier, StatusPending, cls.RecommendedBackend)

\* The RunResult DryRun returns; seen is what its lookups saw.
DryRunResult(cls, workerAvailable, fallbackBackend, seen) ==
    [Classified EXCEPT !.pc = "done", !.kind = "preview", !.tier = cls.Tier,
                 !.actual = cls.RecommendedBackend,
                 !.fallbackBackend = fallbackBackend,
                 !.workerAvailable = workerAvailable,
                 !.validationRequired = ValidationRequired(cls.Tier),
                 !.fallbackCalls = IF workerAvailable THEN 0 ELSE 1,
                 !.checks = seen]

\* A findFallbackWorker whose loop starts at the second entry of the list.
DryRunFallback_SkipsFirst(cls, seen) ==
    [Classified EXCEPT !.pc = "dryfallback", !.tier = cls.Tier,
                 !.actual = cls.RecommendedBackend, !.fbidx = 2,
                 !.fallbackCalls = 1, !.checks = seen]

\* DryRun when the lookup of the recommended backend has found no usable
\* handle: it calls findFallbackWorker, whose loop is at its first entry.
DryRunFallback(cls, seen) ==
    [Classified EXCEPT !.pc = "dryfallback", !.tier = cls.Tier,
                 !.actual = cls.RecommendedBackend, !.fbidx = 1,
                 !.fallbackCalls = 1, !.checks = seen]

\* DryRun at `worker, ok := c.workers[classification.RecommendedBackend]`
\* and `workerAvailable := ok && worker.Available()`: the lookup of the
\* recommended backend; r is the call so far.
DryRunFindWorker(r) ==
    LET cls == [Tier |-> r.tier, RecommendedBackend |-> r.actual]
        seen == <<Observe(r.actual)>>
    IN IF Usable(r.actual)
       THEN DryRunResult(cls, TRUE, "", seen)
       ELSE DryRunFallback(cls, seen)

\* findFallbackWorker called by DryRun: one iteration of the loop over the
\* fallbacks, which reads the map and the handle's flag, or the `return nil`
\* after it; r is the call so far.
DryRunFindFallbackWorker(r) ==
    LET list == fallbacks(r.tier)
        cls == [Tier |-> r.tier, RecommendedBackend |-> r.actual]
    IN IF r.fbidx > Len(list)
       THEN DryRunResult(cls, FALSE, "", r.checks)
       ELSE LET backend == list[r.fbidx]
                seen == Append(r.checks, Observe(backend))
            IN IF Usable(backend)
               THEN DryRunResult(cls, FALSE, backend, seen)
               ELSE [r EXCEPT !.fbidx = r.fbidx + 1, !.checks = seen]

\* A call in progress when the runtime stops the program with a fatal error:
\* it never returns, what it has done up to then stays done, and an Execute
\* it is inside never returns either.
Fatal(r, error) == [r EXCEPT !.pc = "fatal", !.kind = "fatal", !.error = error]

\* The runtime has stopped the program.
Stopped == fatal # NoError

\* The callers whose Run call is in progress (past CreateTask, not returned).
Active ==
    {c \in Callers : runs[c].pc \notin {"idle", "done", "fatal", "dryfind", "dryfallback"}}

\* The callers whose next step reads the map Conductor.workers.
Reading ==
    {c \in Callers :
        \/ runs[c].pc \in {"find", "dryfind"}
        \/ /\ runs[c].pc \in {"fallback", "dryfallback"}
           /\ runs[c].fbidx <= Len(fallbacks(runs[c].tier))}

\* The caller whose call of Run or DryRun starts next.
NextCaller ==
    LET idle == {i \in DOMAIN CallerOrder : runs[CallerOrder[i]].pc = "idle"}
    IN IF idle = {} \/ Stopped THEN {}
       ELSE {CallerOrder[CHOOSE i \in idle : \A j \in idle : i <= j]}

\* The identities of the handles given to RegisterWorker: the registry of the
\* model holds at most MaxWorkers of them, and a stopped program registers
\* none.  Each call is given a new handle, as every call in the repository
\* is; a call that is given the registered handle again changes nothing.
RegisterInputs ==
    IF Stopped THEN {}
    ELSE {b \in Backends : Cardinality(workers \cup {b}) <= MaxWorkers}

\* Number of Execute calls in flight on the handles of a backend, the
\* registered one and those that were replaced.
InFlight(b) ==
    Cardinality({c \in Callers : runs[c].inExecute /\ runs[c].worker = b})

----------------------------------------------------------------------------
Init ==
    /\ workers = {}
    /\ available = [b \in Backends |-> TRUE]
    /\ tasks = <<>>
    /\ executions = <<>>
    /\ runs = [c \in Callers |-> Idle]
    /\ title = <<>>
    /\ description = <<>>
    /\ classification = NoClassification
    /\ cancelled = {}
    /\ cli = NoCommand
    /\ lastCall = NoCall
    /\ statsCall = NoStats
    /\ pool = NoPool
    /\ fatal = NoError

\* Conductor.RegisterWorker: `c.workers[w.Backend()] = w`, at any time and
\* without a lock, w being a new handle of backend b, which reports
\* Available()=true.  A lookup of a Run or DryRun call in another goroutine
\* reads the map before or after the assignment.  The handle that the entry
\* held before stays the handle of the calls that resolved it: their Execute
\* writes its flag, and no longer the flag of the entry.
RegisterWorker(b) ==
    LET \* the calls that have resolved a handle of b and whose Execute on
        \* it has not returned
        holders == {c \in Callers : /\ runs[c].worker = b
                                    /\ runs[c].pc \in {"update", "execute", "executing"}}
        older(c) == {runs[d].replaced : d \in {e \in holders : runs[e].replaced <= runs[c].replaced}}
    IN /\ workers' = workers \cup {b}
       /\ available' = [available EXCEPT ![b] = TRUE]
       /\ runs' = [c \in Callers |->
                     IF c \in holders
                     THEN [runs[c] EXCEPT !.replaced = Cardinality(older(c))]
                     ELSE runs[c]]
       /\ UNCHANGED <<tasks, executions, classifierVars, commandVars, callVars, poolVars, fatal>>

\* RegisterWorker at the same time as another access of the map in another
\* goroutine, a data race.  The runtime may detect the write in progress and
\* stop the program: with "fatal error: concurrent map read and map write"
\* when the other access is the map read of a lookup of Run or DryRun, and
\* with "fatal error: concurrent map writes" when it is the assignment of
\* another RegisterWorker, which may be made at any time.  The calls in
\* progress never return; the rows they wrote stay as they are.
RegisterWorkerRace(b, error) ==
    /\ error = ErrConcurrentMap => Reading # {}
    /\ fatal' = error
    /\ runs' = [c \in Callers |->
                  IF runs[c].pc \in {"idle", "done"} THEN runs[c] ELSE Fatal(runs[c], error)]
    /\ UNCHANGED <<workers, available, tasks, executions, classifierVars, commandVars, callVars, poolVars>>

\* Run, steps 1 and 2: Classify (cls is what it returned), generateID,
\* CreateTask, whose error Run wraps and returns without a RunResult.
RunCreateTask(c, cls, id, dbErr) ==
    /\ runs[c].pc = "idle"
    /\ IF CreateTaskFails(id, dbErr)
       THEN /\ runs' = [runs EXCEPT ![c] =
                         ReturnError([LedgerCall(Classified) EXCEPT
                                        !.error = IF dbErr THEN ErrDatabase
                                                  ELSE ErrUnique])]
            /\ UNCHANGED tasks
       ELSE /\ tasks' = CreateTask(id, NewTask(cls))
            /\ runs' = [runs EXCEPT ![c] = NewRun(cls.Tier, id)]
    /\ UNCHANGED <<workers, available, executions, classifierVars, commandVars, callVars, poolVars, fatal>>

\* A dry run that reserves the handle of the recommended backend.
DryRun_ReservesWorker(c, cls) ==
    /\ runs[c].pc = "idle"
    /\ runs' = [runs EXCEPT ![c] = [Classified EXCEPT !.pc = "dryfind", !.tier = cls.Tier,
                                        !.actual = cls.RecommendedBackend]]
    /\ available' = [available EXCEPT ![cls.RecommendedBackend] = FALSE]
    /\ UNCHANGED <<workers, tasks, executions, classifierVars, commandVars, callVars, poolVars, fatal>>

\* Conductor.DryRun, first step: Classify (cls is what it returned), which
\* reads nothing of the Conductor.
DryRun(c, cls) ==
    /\ runs[c].pc = "idle"
    /\ runs' = [runs EXCEPT ![c] = [Classified EXCEPT !.pc = "dryfind", !.tier = cls.Tier,
                                        !.actual = cls.RecommendedBackend]]
    /\ UNCHANGED <<workers, available, tasks, executions, classifierVars, commandVars, callVars, poolVars, fatal>>

\* Conductor.DryRun, one lookup: that of the recommended backend, after
\* which the call returns when the handle is usable and goes on to
\* findFallbackWorker when it is not; or one iteration of the loop of
\* findFallbackWorker, or its `return nil`, and then the RunResult.  Nothing
\* keeps another goroutine from changing the registry or a flag between two
\* lookups.
DryRunLookup(c) ==
    /\ runs[c].pc \in {"dryfind", "dryfallback"}
    /\ runs' = [runs EXCEPT ![c] =
                  IF runs[c].pc = "dryfind" THEN DryRunFindWorker(runs[c])
                  ELSE DryRunFindFallbackWorker(runs[c])]
    /\ UNCHANGED <<workers, available, tasks, executions, classifierVars, commandVars, callVars, poolVars, fatal>>

\* A first check that waits while the registered handle of the recommended
\* backend is busy.
RunFindWorker_WaitsForPrimary(c) ==
    /\ runs[c].pc = "find"
    /\ recommendBackend(runs[c].tier) \in workers => available[recommendBackend(runs[c].tier)]
    /\ LET r == runs[c]
           primary == recommendBackend(r.tier)
           seen == Append(r.checks, Observe(primary))
       IN runs' = [runs EXCEPT ![c] =
                     IF Usable(primary)
                     THEN [r EXCEPT !.pc = "update", !.worker = primary, !.checks = seen]
                     ELSE [r EXCEPT !.pc = "fallback", !.fbidx = 1, !.checks = seen,
                                    !.fallbackCalls = @ + 1]]
    /\ UNCHANGED <<workers, available, tasks, executions, classifierVars, commandVars, callVars, poolVars, fatal>>

\* Run, step 3, first check: the handle of the recommended backend.
RunFindWorker(c) ==
    /\ runs[c].pc = "find"
    /\ LET r == runs[c]
           primary == recommendBackend(r.tier)
           seen == Append(r.checks, Observe(primary))
       IN runs' = [runs EXCEPT ![c] =
                     IF Usable(primary)
                     THEN [r EXCEPT !.pc = "update", !.worker = primary, !.checks = seen]
                     ELSE [r EXCEPT !.pc = "fallback", !.fbidx = 1, !.checks = seen,
                                    !.fallbackCalls = @ + 1]]
    /\ UNCHANGED <<workers, available, tasks, executions, classifierVars, commandVars, callVars, poolVars, fatal>>

\* A resolution failure that marks the task failed in the ledger.
RunFindFallbackWorker_MarksFailed(c) ==
    /\ runs[c].pc = "fallback"
    /\ LET r == runs[c]
           list == fallbacks(r.tier)
       IN IF r.fbidx > Len(list)
          THEN /\ runs' = [runs EXCEPT ![c] = NoWorkerResult(LedgerCall(r))]
               /\ tasks' = UpdateTaskStatus(r.taskId, StatusFailed)
          ELSE /\ LET backend == list[r.fbidx]
                      seen == Append(r.checks, Observe(backend))
                  IN runs' = [runs EXCEPT ![c] =
                        IF Usable(backend)
                        THEN [r EXCEPT !.pc = "update", !.worker = backend, !.checks = seen]
                        ELSE [r EXCEPT !.fbidx = r.fbidx + 1, !.checks = seen]]
               /\ UNCHANGED tasks
    /\ UNCHANGED <<workers, available, executions, classifierVars, commandVars, callVars, poolVars, fatal>>

\* findFallbackWorker: one iteration of the loop over the fallbacks, or the
\* `return nil` after it together with the `worker == nil` branch of Run.
RunFindFallbackWorker(c) ==
    /\ runs[c].pc = "fallback"
    /\ LET r == runs[c]
           list == fallbacks(r.tier)
       IN IF r.fbidx > Len(list)
          THEN runs' = [runs EXCEPT ![c] = NoWorkerResult(r)]
          ELSE LET backend == list[r.fbidx]
                   seen == Append(r.checks, Observe(backend))
               IN runs' = [runs EXCEPT ![c] =
                     IF Usable(backend)
                     THEN [r EXCEPT !.pc = "update", !.worker = backend, !.checks = seen]
                     ELSE [r EXCEPT !.fbidx = r.fbidx + 1, !.checks = seen]]
    /\ UNCHANGED <<workers, available, tasks, executions, classifierVars, commandVars, callVars, poolVars, fatal>>

\* A step 4 that goes on to Execute when the update failed.
RunUpdateWorking_IgnoresError(c, dbErr) ==
    /\ runs[c].pc = "update"
    /\ tasks' = IF dbErr THEN tasks ELSE UpdateTaskStatus(runs[c].taskId, StatusWorking)
    /\ runs' = [runs EXCEPT ![c] =
                  [LedgerCall(runs[c]) EXCEPT !.pc = "execute", !.ledgerErr = dbErr]]
    /\ UNCHANGED <<workers, available, executions, classifierVars, commandVars, callVars, poolVars, fatal>>

\* Run, step 4: UpdateTaskStatus(working); its error is returned.
RunUpdateWorking(c, dbErr) ==
    /\ runs[c].pc = "update"
    /\ IF dbErr
       THEN /\ runs' = [runs EXCEPT ![c] = ReturnError(LedgerCall(runs[c]))]
            /\ UNCHANGED tasks
       ELSE /\ tasks' = UpdateTaskStatus(runs[c].taskId, StatusWorking)
            /\ runs' = [runs EXCEPT ![c] = [LedgerCall(runs[c]) EXCEPT !.pc = "execute"]]
    /\ UNCHANGED <<workers, available, executions, classifierVars, commandVars, callVars, poolVars, fatal>>

\* Worker.Execute is entered: `w.available = false`, on the handle the Run
\* resolved, which is the flag of the registry's entry unless the handle has
\* been replaced.
ExecuteBegin(c) ==
    /\ runs[c].pc = "execute"
    /\ available' = IF runs[c].replaced = 0
                    THEN [available EXCEPT ![runs[c].worker] = FALSE]
                    ELSE available
    /\ runs' = [runs EXCEPT ![c].pc = "executing", ![c].executes = @ + 1,
                            ![c].inExecute = TRUE]
    /\ UNCHANGED <<workers, tasks, executions, classifierVars, commandVars, callVars, poolVars, fatal>>

\* Worker.Execute returns: the deferred `w.available = true`.  The outcome is
\* a result with Success=true ("ok"), a result with Success=false ("fail")
\* or a non-nil error ("err").
ExecuteEnd(c, outcome) ==
    /\ runs[c].pc = "executing"
    /\ available' = IF runs[c].replaced = 0
                    THEN [available EXCEPT ![runs[c].worker] = TRUE]
                    ELSE available
    /\ runs' = [runs EXCEPT ![c].pc = "executed", ![c].outcome = outcome,
                            ![c].inExecute = FALSE, ![c].replaced = 0]
    /\ UNCHANGED <<workers, tasks, executions, classifierVars, commandVars, callVars, poolVars, fatal>>

\* A Run that calls Execute again after Execute returned an error.
RunExecuteFailed_Retries(c, dbErr) ==
    /\ runs[c].pc = "executed" /\ runs[c].outcome # "ok"
    /\ runs' = [runs EXCEPT ![c].pc = "execute", ![c].outcome = ""]
    /\ UNCHANGED <<workers, available, tasks, executions, classifierVars, commandVars, callVars, poolVars, fatal>>

\* Run after a failed Execute: UpdateTaskStatus(failed), whose error is
\* dropped, and `return result, nil`.
RunExecuteFailed(c, dbErr) ==
    /\ runs[c].pc = "executed" /\ runs[c].outcome # "ok"
    /\ tasks' = IF dbErr THEN tasks ELSE UpdateTaskStatus(runs[c].taskId, StatusFailed)
    /\ runs' = [runs EXCEPT ![c] =
                  ReturnResult([LedgerCall(runs[c]) EXCEPT !.ledgerErr = dbErr],
                               StatusFailed,
                               IF runs[c].outcome = "err" THEN ErrExecute ELSE ErrReported,
                               FALSE)]
    /\ UNCHANGED <<workers, available, executions, classifierVars, commandVars, callVars, poolVars, fatal>>

\* Run, step 5: generateID and CreateExecution; its error is returned.
RunCreateExecution(c, execId, dbErr) ==
    /\ runs[c].pc = "executed" /\ runs[c].outcome = "ok"
    /\ IF CreateExecutionFails(execId, dbErr)
       THEN /\ runs' = [runs EXCEPT ![c] = ReturnError(LedgerCall(runs[c]))]
            /\ UNCHANGED executions
       ELSE /\ executions' = CreateExecution(execId,
                                NewExecution(runs[c].taskId, execId, runs[c]))
            /\ runs' = [runs EXCEPT ![c] = [LedgerCall(runs[c]) EXCEPT !.pc = "finish"]]
    /\ UNCHANGED <<workers, available, tasks, classifierVars, commandVars, callVars, poolVars, fatal>>

\* Run, step 6 and the final status: the UpdateTaskStatus error is dropped.
RunFinish(c, dbErr) ==
    /\ runs[c].pc = "finish"
    /\ LET validationRequired == ValidationRequired(runs[c].tier)
           status == FinalStatus(validationRequired)
       IN /\ tasks' = IF dbErr THEN tasks ELSE UpdateTaskStatus(runs[c].taskId, status)
          /\ runs' = [runs EXCEPT ![c] =
                        ReturnResult([LedgerCall(runs[c]) EXCEPT !.ledgerErr = dbErr],
                                     status, NoError, validationRequired)]
    /\ UNCHANGED <<workers, available, executions, classifierVars, commandVars, callVars, poolVars, fatal>>

\* The steps of a Run call after CreateTask, for the calls of `callers`.
RunSteps(callers) ==
    \/ \E c \in callers : RunFindWorker(c)
    \/ \E c \in callers : RunFindFallbackWorker(c)
    \/ \E c \in callers, dbErr \in BOOLEAN : RunUpdateWorking(c, dbErr)
    \/ \E c \in callers : ExecuteBegin(c)
    \/ \E c \in callers, outcome \in {"ok", "fail", "err"} : ExecuteEnd(c, outcome)
    \/ \E c \in callers, dbErr \in BOOLEAN : RunExecuteFailed(c, dbErr)
    \/ \E c \in callers, execId \in generateID(executions), dbErr \in BOOLEAN :
          RunCreateExecution(c, execId, dbErr)
    \/ \E c \in callers, dbErr \in BOOLEAN : RunFinish(c, dbErr)

Next ==
    \/ \E b \in RegisterInputs : RegisterWorker(b)
    \/ \E b \in RegisterInputs, error \in {ErrConcurrentMap, ErrConcurrentMapWrites} :
          RegisterWorkerRace(b, error)
    \/ \E c \in NextCaller, cls \in Routings, id \in generateID(tasks), dbErr \in BOOLEAN :
          RunCreateTask(c, cls, id, dbErr)
    \/ RunSteps(Callers)

Spec == Init /\ [][Next]_vars

----------------------------------------------------------------------------
\* A Run whose caller may cancel its context at any time: Run passes ctx to
\* Execute and reads it nowhere.

CancelContext(c) ==
    /\ c \notin cancelled
    /\ runs[c].pc # "done"
    /\ cancelled' = cancelled \cup {c}
    /\ UNCHANGED <<conductorVars, classifierVars, cli, callVars, poolVars, fatal>>

\* One goroutine calls the Conductor.
OneCaller == {"c1"}

NextCancel ==
    \/ \E c \in OneCaller : ~Stopped /\ CancelContext(c)
    \/ \E b \in RegisterInputs : RegisterWorker(b)
    \/ \E b \in RegisterInputs, error \in {ErrConcurrentMap, ErrConcurrentMapWrites} :
          RegisterWorkerRace(b, error)
    \/ \E c \in OneCaller, cls \in Routings, id \in generateID(tasks), dbErr \in BOOLEAN :
          ~Stopped /\ RunCreateTask(c, cls, id, dbErr)
    \/ RunSteps(OneCaller)

SpecCancel == Init /\ [][NextCancel]_vars

----------------------------------------------------------------------------
\* DryRun next to a Run: one goroutine may call Run, and each goroutine may
\* call DryRun, at any point of that Run.

NextDryRun ==
    \/ \E b \in RegisterInputs : RegisterWorker(b)
    \/ \E b \in RegisterInputs, error \in {ErrConcurrentMap, ErrConcurrentMapWrites} :
          RegisterWorkerRace(b, error)
    \/ \E c \in Callers, cls \in Routings : ~Stopped /\ DryRun(c, cls)
    \/ \E c \in Callers : DryRunLookup(c)
    \/ \E c \in OneCaller, cls \in Routings, id \in generateID(tasks), dbErr \in BOOLEAN :
          ~Stopped /\ RunCreateTask(c, cls, id, dbErr)
    \/ RunSteps(OneCaller)

SpecDryRun == Init /\ [][NextDryRun]_vars

----------------------------------------------------------------------------
\* DryRun next to a Run: one goroutine calls Run and another calls DryRun, at
\* any point of that Run, while other goroutines that hold the registered
\* handles call Execute on them (on the handles that the two calls look up).
\* The two calls are given inputs that Classify puts in the same tier; no
\* ledger statement fails and the Execute of the Run succeeds.

\* The classifications of the input of a call that starts: of the tier of
\* the call that has started, if one has.
SameInput ==
    {cls \in Routings : \A c \in Callers : runs[c].pc # "idle" => runs[c].tier = cls.Tier}

\* The backends that a call that has started looks up: the recommended
\* backend of its tier and the fallback list of the tier.  The other
\* goroutines call Execute on the handles of these backends; the flag of any
\* other handle is read by neither call.
LookedUp ==
    {b \in Backends :
        \E c \in Callers :
           /\ runs[c].pc # "idle"
           /\ \/ b = recommendBackend(runs[c].tier)
              \/ \E i \in DOMAIN fallbacks(runs[c].tier) : fallbacks(runs[c].tier)[i] = b}

\* Worker.Execute is entered on the registered handle of b by a goroutine
\* other than the callers: `w.available = false`.
OtherExecuteBegin(b) ==
    /\ b \in workers
    /\ available[b]
    /\ available' = [available EXCEPT ![b] = FALSE]
    /\ UNCHANGED <<workers, tasks, executions, runs, classifierVars, commandVars, callVars, poolVars, fatal>>

\* An Execute of another goroutine on the handle of b returns: the deferred
\* `w.available = true`.
OtherExecuteEnd(b) ==
    /\ b \in workers
    /\ ~available[b]
    /\ available' = [available EXCEPT ![b] = TRUE]
    /\ UNCHANGED <<workers, tasks, executions, runs, classifierVars, commandVars, callVars, poolVars, fatal>>

NextPreview ==
    \/ \E b \in RegisterInputs : RegisterWorker(b)
    \/ \E b \in RegisterInputs, error \in {ErrConcurrentMap, ErrConcurrentMapWrites} :
          RegisterWorkerRace(b, error)
    \/ \E b \in LookedUp : ~Stopped /\ OtherExecuteBegin(b)
    \/ \E b \in LookedUp : ~Stopped /\ OtherExecuteEnd(b)
    \/ \E c \in Callers \ OneCaller, cls \in SameInput : ~Stopped /\ DryRun(c, cls)
    \/ \E c \in Callers \ OneCaller : DryRunLookup(c)
    \/ \E c \in OneCaller, cls \in SameInput, id \in generateID(tasks) :
          ~Stopped /\ RunCreateTask(c, cls, id, FALSE)
    \/ \E c \in OneCaller : RunFindWorker(c)
    \/ \E c \in OneCaller : RunFindFallbackWorker(c)
    \/ \E c \in OneCaller : RunUpdateWorking(c, FALSE)
    \/ \E c \in OneCaller : ExecuteBegin(c)
    \/ \E c \in OneCaller : ExecuteEnd(c, "ok")
    \/ \E c \in OneCaller, execId \in generateID(executions) :
          RunCreateExecution(c, execId, FALSE)
    \/ \E c \in OneCaller : RunFinish(c, FALSE)

SpecPreview == Init /\ [][NextPreview]_vars

----------------------------------------------------------------------------
\* internal/cli/run.go: the `bigo run` command.

ClaudeModelNames == {"opus", "sonnet", "haiku"}
OllamaModelNames == {"fast", "default", "reasoning"}
GeminiModelNames == {"flash", "pro"}

\* The backend runTask gives the worker of a model name.
ClaudeBackendOf(name) ==
    CASE name = "opus" -> BackendClaudeOpus
      [] name = "haiku" -> BackendClaudeHaiku
      [] OTHER -> BackendClaudeSonnet
OllamaBackendOf(name) ==
    CASE name = "fast" -> BackendOllamaFast
      [] name = "reasoning" -> BackendOllamaReason
      [] OTHER -> BackendOllama
GeminiBackendOf(name) ==
    CASE name = "pro" -> BackendGeminiPro
      [] OTHER -> BackendGeminiFlash

\* The backends runTask registers a worker for, given the configuration as
\* the quota checks left it.
RegisteredByCommand(cfg) ==
    (IF cfg.Ollama.Enabled THEN {OllamaBackendOf(n) : n \in cfg.Ollama.Models} ELSE {}) \cup
    (IF cfg.Claude.Enabled THEN {ClaudeBackendOf(n) : n \in cfg.Claude.Models} ELSE {}) \cup
    (IF cfg.Gemini.Enabled /\ cfg.Gemini.APIKey
     THEN {GeminiBackendOf(n) : n \in cfg.Gemini.Models} ELSE {})

\* The configurations of the model: at most MaxModels models in all.
Configs ==
    {cfg \in [Claude : [Enabled : BOOLEAN, Models : SUBSET ClaudeModelNames],
              Ollama : [Enabled : BOOLEAN, Models : SUBSET OllamaModelNames],
              Gemini : [Enabled : BOOLEAN, APIKey : BOOLEAN,
                        Models : SUBSET GeminiModelNames]] :
        Cardinality(cfg.Claude.Models) + Cardinality(cfg.Ollama.Models)
            + Cardinality(cfg.Gemini.Models) <= MaxModels}

\* A quota check whose error leaves the configuration as it was.
AfterQuotaCheck_StaysEnabled(class, err) == class

\* `if err = w.CheckQuota(ctx); err != nil { cfg.Workers.X.Enabled = false }`
AfterQuotaCheck(class, err) == [class EXCEPT !.Enabled = ~err]

\* runTask has loaded the configuration and opened the ledger, or left it nil
\* because `.bigo/ledger.db` does not exist.
InitCommand ==
    /\ workers = {}
    /\ available = [b \in Backends |-> TRUE]
    /\ tasks = <<>>
    /\ executions = <<>>
    /\ runs = [c \in Callers |-> Idle]
    /\ title = <<>>
    /\ description = <<>>
    /\ classification = NoClassification
    /\ cancelled = {}
    /\ cli \in [pc : {"claude"}, cfg : Configs, runDryRun : BOOLEAN,
                 claudeQuotaErr : {FALSE}, geminiQuotaErr : {FALSE},
                 ledger : {"open", "nil"}]
    /\ lastCall = NoCall
    /\ statsCall = NoStats
    /\ pool = NoPool
    /\ fatal = NoError

\* The pre-flight check of the Claude quota; err is what CheckQuota returned.
CheckClaudeQuota(err) ==
    /\ cli.pc = "claude"
    /\ LET checked == cli.cfg.Claude.Enabled /\ cli.cfg.Claude.Models # {}
       IN cli' = IF checked
                 THEN [cli EXCEPT !.pc = "gemini",
                                  !.cfg.Claude = AfterQuotaCheck(cli.cfg.Claude, err),
                                  !.claudeQuotaErr = err]
                 ELSE [cli EXCEPT !.pc = "gemini"]
    /\ UNCHANGED <<conductorVars, classifierVars, cancelled, callVars, poolVars, fatal>>

\* The pre-flight check of the Gemini quota.
CheckGeminiQuota(err) ==
    /\ cli.pc = "gemini"
    /\ LET checked == /\ cli.cfg.Gemini.Enabled /\ cli.cfg.Gemini.APIKey
                      /\ cli.cfg.Gemini.Models # {}
       IN cli' = IF checked
                 THEN [cli EXCEPT !.pc = "conductor",
                                  !.cfg.Gemini = AfterQuotaCheck(cli.cfg.Gemini, err),
                                  !.geminiQuotaErr = err]
                 ELSE [cli EXCEPT !.pc = "conductor"]
    /\ UNCHANGED <<conductorVars, classifierVars, cancelled, callVars, poolVars, fatal>>

\* runTask with --dry-run: DryRun right after NewConductor, and return.
CommandDryRun(cls) ==
    /\ cli.pc = "conductor" /\ cli.runDryRun
    /\ DryRun("c1", cls)

\* runTask registers a worker of the configuration, before it calls Run.
CommandRegisterWorker(b) ==
    /\ cli.pc = "conductor" /\ ~cli.runDryRun
    /\ runs["c1"].pc = "idle"
    /\ b \in RegisteredByCommand(cli.cfg)
    /\ RegisterWorker(b)

\* Run on a Conductor whose ledger is nil: after Classify and generateID,
\* `c.ledger.CreateTask(task)` reads `l.db` of a nil *Ledger and the goroutine
\* panics with a nil pointer dereference.
RunNilLedger(c, cls) ==
    /\ runs[c].pc = "idle"
    /\ runs' = [runs EXCEPT ![c] =
                  [Classified EXCEPT !.pc = "done", !.kind = "panic",
                                     !.error = ErrNilPointer]]
    /\ UNCHANGED <<workers, available, tasks, executions, classifierVars, commandVars, callVars, poolVars, fatal>>

\* runTask calls Run after it has registered the workers.
CommandRun(cls, id, dbErr) ==
    /\ cli.pc = "conductor" /\ ~cli.runDryRun
    /\ workers = RegisteredByCommand(cli.cfg)
    /\ IF cli.ledger = "nil"
       THEN RunNilLedger("c1", cls)
       ELSE RunCreateTask("c1", cls, id, dbErr)

NextCommand ==
    \/ \E err \in BOOLEAN : CheckClaudeQuota(err)
    \/ \E err \in BOOLEAN : CheckGeminiQuota(err)
    \/ \E cls \in Routings : CommandDryRun(cls)
    \/ DryRunLookup("c1")
    \/ \E b \in Backends \cup GeminiBackends : CommandRegisterWorker(b)
    \/ \E cls \in Routings, id \in generateID(tasks), dbErr \in BOOLEAN : CommandRun(cls, id, dbErr)
    \/ RunSteps(OneCaller)

SpecCommand == InitCommand /\ [][NextCommand]_vars

----------------------------------------------------------------------------
\* A Classifier on its own: an input is drawn, and Classify is called on it
\* any number of times.

InitClassifier ==
    /\ workers = {}
    /\ available = [b \in Backends |-> TRUE]
    /\ tasks = <<>>
    /\ executions = <<>>
    /\ runs = [c \in Callers |-> Idle]
    /\ title \in Titles
    /\ description \in Descriptions
    /\ classification = NoClassification
    /\ cancelled = {}
    /\ cli = NoCommand
    /\ lastCall = NoCall
    /\ statsCall = NoStats
    /\ pool = NoPool
    /\ fatal = NoError

\* Classifier.Classify(title, description)
Classify(order) ==
    /\ classification' = ClassifyIn(title, description, order)
    /\ UNCHANGED <<title, description>>
    /\ UNCHANGED <<conductorVars, commandVars, callVars, poolVars, fatal>>

NextClassifier ==
    \E order \in Orders(ScoredTiers(Text(title, description))) : Classify(order)

SpecClassifier == InitClassifier /\ [][NextClassifier]_vars

----------------------------------------------------------------------------
\* The registry on its own: handles are registered in any order, and two
\* handles may have the same backend identity.

Handles == [id : {"w1", "w2"}, backend : Backends]

\* A registration that keeps the handle an identity already has.
Registered_KeepsFirst(registry, w) ==
    IF w.backend \in DOMAIN registry THEN registry ELSE registry @@ (w.backend :> w)

\* `c.workers[w.Backend()] = w` on the map `registry`.
Registered(registry, w) ==
    [b \in DOMAIN registry \cup {w.backend} |-> IF b = w.backend THEN w ELSE registry[b]]

InitRegistry ==
    /\ workers = <<>>
    /\ available = [b \in Backends |-> TRUE]
    /\ tasks = <<>>
    /\ executions = <<>>
    /\ runs = [c \in Callers |-> Idle]
    /\ title = <<>>
    /\ description = <<>>
    /\ classification = NoClassification
    /\ cancelled = {}
    /\ cli = NoCommand
    /\ lastCall = NoCall
    /\ statsCall = NoStats
    /\ pool = NoPool
    /\ fatal = NoError

\* Conductor.RegisterWorker(w)
RegisterHandle(w) ==
    /\ workers' = Registered(workers, w)
    /\ lastCall' = [op |-> "RegisterWorker", w |-> w]
    /\ UNCHANGED statsCall
    /\ UNCHANGED <<available, tasks, executions, runs, classifierVars, commandVars, poolVars, fatal>>

NextRegistry == \E w \in Handles : RegisterHandle(w)

SpecRegistry == InitRegistry /\ [][NextRegistry]_vars

----------------------------------------------------------------------------
\* adjustTierByScope on its own: it is called with any tier and with scope
\* estimates on both sides of each of its thresholds.

ScopeLines == {0, 1, 5, 9, 10, 11, 50, 200, 201, 500, 501, 1000}
ScopeFiles == {0, 1, 2, 5, 6, 10, 11, 20}

AdjustTierByScope(tier, lines, files) ==
    /\ UNCHANGED statsCall
    /\ lastCall' = [op |-> "adjustTierByScope", tier |-> tier, lines |-> lines,
                    files |-> files, result |-> adjustTierByScope(tier, lines, files)]
    /\ UNCHANGED <<conductorVars, classifierVars, commandVars, poolVars, fatal>>

NextScope ==
    \E tier \in Tiers, lines \in ScopeLines, files \in ScopeFiles :
        AdjustTierByScope(tier, lines, files)

SpecScope == Init /\ [][NextScope]_vars

----------------------------------------------------------------------------
\* internal/workers/pool.go: a Pool on its own.  Goroutines call Add, Acquire
\* and Release in any order, and a goroutine that holds a worker may call its
\* Execute.  Next to the fields of the Pool the state keeps the `available`
\* flag of each worker, the worker each caller got from Acquire and has not
\* passed to Release, and the callers inside Execute.

PoolWorkers == {"w1", "w2"}

\* NewPool(backend, maxWorkers)
NewPool(maxWorkers) ==
    [maxWorkers |-> maxWorkers, workers |-> <<>>, activeCount |-> 0,
     available |-> [w \in PoolWorkers |-> TRUE],
     held |-> [c \in Callers |-> ""], executing |-> {}]

InitPool ==
    /\ workers = {}
    /\ available = [b \in Backends |-> TRUE]
    /\ tasks = <<>>
    /\ executions = <<>>
    /\ runs = [c \in Callers |-> Idle]
    /\ title = <<>>
    /\ description = <<>>
    /\ classification = NoClassification
    /\ cancelled = {}
    /\ cli = NoCommand
    /\ lastCall = NoCall
    /\ statsCall = NoStats
    /\ pool \in {NewPool(n) : n \in 0..MaxPoolWorkers}
    /\ fatal = NoError

\* Pool.Size and Pool.ActiveCount
Size == Len(pool.workers)
ActiveCount == pool.activeCount

\* The first worker of the pool whose Available() is true, "" when there is
\* none: the loop of Acquire.
FirstAvailable ==
    LET free == {i \in DOMAIN pool.workers : pool.available[pool.workers[i]]}
    IN IF free = {} THEN ""
       ELSE pool.workers[CHOOSE i \in free : \A j \in free : i <= j]

\* Pool.Add(w)
PoolAdd(w) ==
    /\ pool' = IF Len(pool.workers) < pool.maxWorkers
               THEN [pool EXCEPT !.workers = Append(@, w)]
               ELSE pool
    /\ UNCHANGED <<conductorVars, classifierVars, commandVars, callVars, fatal>>

\* Pool.Acquire(), called by a goroutine that holds no worker.
PoolAcquire(c) ==
    /\ pool.held[c] = ""
    /\ LET w == FirstAvailable
       IN pool' = IF w = "" THEN pool
                  ELSE [pool EXCEPT !.activeCount = @ + 1, !.held[c] = w]
    /\ UNCHANGED <<conductorVars, classifierVars, commandVars, callVars, fatal>>

\* Pool.Release(w), called by any goroutine that is not inside Execute, with
\* the worker it holds or with another one.
PoolRelease(c, w) ==
    /\ c \notin pool.executing
    /\ pool' = [pool EXCEPT !.activeCount = IF @ > 0 THEN @ - 1 ELSE @,
                            !.held[c] = IF @ = w THEN "" ELSE @]
    /\ UNCHANGED <<conductorVars, classifierVars, commandVars, callVars, fatal>>

\* Execute of the worker a goroutine holds is entered: `w.available = false`.
PoolExecuteBegin(c) ==
    /\ pool.held[c] # "" /\ c \notin pool.executing
    /\ pool' = [pool EXCEPT !.available[pool.held[c]] = FALSE,
                            !.executing = @ \cup {c}]
    /\ UNCHANGED <<conductorVars, classifierVars, commandVars, callVars, fatal>>

\* Execute returns: the deferred `w.available = true`.
PoolExecuteEnd(c) ==
    /\ c \in pool.executing
    /\ pool' = [pool EXCEPT !.available[pool.held[c]] = TRUE,
                            !.executing = @ \ {c}]
    /\ UNCHANGED <<conductorVars, classifierVars, commandVars, callVars, fatal>>

NextPool ==
    \/ \E w \in PoolWorkers : PoolAdd(w)
    \/ \E c \in Callers : PoolAcquire(c)
    \/ \E c \in Callers, w \in PoolWorkers : PoolRelease(c, w)
    \/ \E c \in Callers : PoolExecuteBegin(c)
    \/ \E c \in Callers : PoolExecuteEnd(c)

SpecPool == InitPool /\ [][NextPool]_vars

----------------------------------------------------------------------------
\* A Ledger on its own: its operations are called in any order, with tasks and
\* executions drawn from the sets below.

LedgerTaskIDs == {"task-1", "task-2"}
LedgerExecutionIDs == {"exec-1", "exec-2"}

\* The tasks and executions given to CreateTask and CreateExecution.  A cost
\* is in cents; the empty backend is the zero value of Execution.Backend.
LedgerTasks ==
    {Task("task-1", "Test Task", "Description", TierStandard, StatusPending, BackendGeminiPro),
     Task("task-1", "Other", "", TierTrivial, StatusDone, BackendOllamaFast),
     Task("task-2", "Other", "", TierTrivial, StatusDone, BackendOllamaFast)}
LedgerExecutions ==
    {Execution(id, "task-1", e[1], e[2], "completed") :
        id \in LedgerExecutionIDs,
        e \in {<<BackendClaudeSonnet, 1>>, <<BackendClaudeSonnet, 5>>,
                <<BackendGeminiPro, 1>>, <<BackendGeminiPro, 5>>,
                <<BackendOllama, 0>>, <<"", 1>>}}

LedgerCreateTask(task, dbErr) ==
    /\ lastCall' = [op |-> "CreateTask", err |-> CreateTaskFails(task.ID, dbErr)]
    /\ statsCall' = AfterCommit(~CreateTaskFails(task.ID, dbErr))
    /\ tasks' = IF CreateTaskFails(task.ID, dbErr) THEN tasks
                ELSE CreateTask(task.ID, InsertedTask(task))
    /\ UNCHANGED <<workers, available, executions, runs, classifierVars, commandVars, poolVars, fatal>>

\* The UPDATE of a row that does not exist changes nothing and is no error.
LedgerUpdateTaskStatus(id, status, dbErr) ==
    /\ lastCall' = [op |-> "UpdateTaskStatus", err |-> dbErr]
    /\ statsCall' = AfterCommit(~dbErr /\ UpdateTaskStatus(id, status) # tasks)
    /\ tasks' = IF dbErr THEN tasks ELSE UpdateTaskStatus(id, status)
    /\ UNCHANGED <<workers, available, executions, runs, classifierVars, commandVars, poolVars, fatal>>

LedgerCreateExecution(exec, dbErr) ==
    /\ lastCall' = [op |-> "CreateExecution", err |-> CreateExecutionFails(exec.ID, dbErr)]
    /\ statsCall' = AfterCommit(~CreateExecutionFails(exec.ID, dbErr))
    /\ executions' = IF CreateExecutionFails(exec.ID, dbErr) THEN executions
                     ELSE CreateExecution(exec.ID, InsertedExecution(exec))
    /\ UNCHANGED <<workers, available, tasks, runs, classifierVars, commandVars, poolVars, fatal>>

LedgerGetTask(id, dbErr) ==
    /\ lastCall' = [op |-> "GetTask", id |-> id,
                    got |-> IF dbErr THEN [err |-> TRUE] ELSE GetTask(id)]
    /\ UNCHANGED statsCall
    /\ UNCHANGED <<conductorVars, classifierVars, commandVars, poolVars, fatal>>

\* Ledger.GetStats, one statement at a time: a call starts with an empty
\* Stats when none is in progress; a statement that fails ends the call with
\* its error; after the last statement the savings are computed and the
\* Stats is returned.  The statements are not in a transaction: a statement
\* of another connection may commit between any two of them.
LedgerGetStats(dbErr) ==
    /\ LET k == IF statsCall.pc \in {0, StatsDone} THEN 1 ELSE statsCall.pc
           before == IF k = 1 THEN ZeroStats ELSE statsCall.stats
           stale == k # 1 /\ statsCall.stale
           after == StatsStatement(k, before)
       IN statsCall' =
             IF dbErr THEN [pc |-> StatsDone, err |-> TRUE]
             ELSE [pc |-> k + 1, err |-> FALSE, stale |-> stale,
                   stats |-> IF k = StatsStatements THEN Savings(after) ELSE after]
    /\ UNCHANGED <<conductorVars, classifierVars, commandVars, lastCall, poolVars, fatal>>

NextLedger ==
    \/ \E task \in LedgerTasks, dbErr \in BOOLEAN : LedgerCreateTask(task, dbErr)
    \/ \E id \in LedgerTaskIDs, status \in TaskStatuses, dbErr \in BOOLEAN :
          LedgerUpdateTaskStatus(id, status, dbErr)
    \/ \E exec \in LedgerExecutions, dbErr \in BOOLEAN : LedgerCreateExecution(exec, dbErr)
    \/ \E id \in LedgerTaskIDs, dbErr \in BOOLEAN : LedgerGetTask(id, dbErr)

SpecLedger == Init /\ [][NextLedger]_vars

----------------------------------------------------------------------------
\* GetStats on a ledger that other connections write to: a goroutine calls
\* GetStats, again and again, while CreateTask, UpdateTaskStatus and
\* CreateExecution statements of others commit, before, between and after
\* the statements of a call.

StatsTasks ==
    {Task("task-1", "Test Task", "Description", TierStandard, StatusPending, BackendGeminiPro),
     Task("task-2", "Other", "", TierTrivial, StatusDone, BackendOllamaFast)}
StatsStatuses == {StatusDone, StatusApproved, StatusFailed}
StatsExecutions ==
    {Execution(id, "task-1", e[1], e[2], "completed") :
        id \in LedgerExecutionIDs,
        e \in {<<BackendClaudeSonnet, 1>>, <<BackendGeminiPro, 1>>, <<BackendGeminiPro, 5>>,
                <<BackendOllama, 0>>}}

NextStats ==
    \/ \E task \in StatsTasks : LedgerCreateTask(task, FALSE)
    \/ \E id \in LedgerTaskIDs, status \in StatsStatuses :
          LedgerUpdateTaskStatus(id, status, FALSE)
    \/ \E exec \in StatsExecutions : LedgerCreateExecution(exec, FALSE)
    \/ \E dbErr \in BOOLEAN : LedgerGetStats(dbErr)

SpecStats == Init /\ [][NextStats]_vars

----------------------------------------------------------------------------
\* Properties.

\* A worker lookup that found a registered handle reporting Available()=true.
Positive(check) == check.registered /\ check.available

\* Every lookup a Run call made found no usable handle.
NoneUsable(checks) == \A i \in DOMAIN checks : ~Positive(checks[i])

\* The callers whose Run call is past worker resolution and has not returned.
Resolved == {c \in Active : runs[c].pc \notin {"find", "fallback"}}

\* The callers whose Run call has returned after it created a task row.
Returned == {c \in Callers : runs[c].pc = "done" /\ runs[c].taskId # 0}

\* The execution rows of a task.
ExecutionsOf(id) == {e \in DOMAIN executions : executions[e].task_id = id}

\* C1: a Run for which neither the primary backend nor any fallback backend
\* has a registered handle reporting Available()=true returns a RunResult
\* (no Go error) with Status=failed and a non-empty Error; it never invokes
\* Execute and no Execution row is written for its task.  A call goes on to
\* the working update only after a lookup that found a usable handle.
C1_ResolutionFailure ==
    /\ \A c \in Active \ Resolved :
          NoneUsable(runs[c].checks) /\ runs[c].worker = ""
    /\ \A c \in Resolved :
          ~NoneUsable(runs[c].checks) /\ runs[c].worker # ""
    /\ \A c \in Returned :
          runs[c].worker = "" =>
              /\ runs[c].kind = "result"
              /\ runs[c].status = StatusFailed
              /\ runs[c].error # NoError
              /\ runs[c].executes = 0
              /\ ExecutionsOf(runs[c].taskId) = {}

\* C1 witness: a Run returned the resolution failure although the handle of
\* its primary backend is registered (it was busy at every lookup).
C1_Witness ==
    \E c \in Returned :
        /\ runs[c].kind = "result" /\ runs[c].error = ErrNoWorker
        /\ recommendBackend(runs[c].tier) \in workers

\* The resolution order as the specification states it: the tier's primary
\* backend, then the fallback list of the tier's group.
C2_Candidates(tier) ==
    CASE tier = TierTrivial ->
            <<"ollama:fast", "ollama:default", "ollama:fast", "claude:haiku">>
      [] tier = TierSimple ->
            <<"ollama:default", "ollama:default", "ollama:fast", "claude:haiku">>
      [] tier = TierStandard ->
            <<"claude:sonnet", "claude:sonnet", "ollama:reasoning", "claude:haiku">>
      [] tier = TierComplex ->
            <<"claude:sonnet", "claude:opus", "claude:sonnet">>
      [] tier = TierCritical ->
            <<"claude:opus", "claude:opus", "claude:sonnet">>

\* C2: the lookups of a Run call follow the order primary, then the fallback
\* list of the tier's group; the call stops at the first lookup that finds a
\* registered handle reporting Available()=true, executes on that handle and
\* reports its identity as ActualBackend.
C2_ResolutionOrder ==
    /\ \A c \in Active :
          LET r == runs[c]
              n == Len(r.checks)
          IN /\ n <= Len(C2_Candidates(r.tier))
             /\ \A i \in 1..n : r.checks[i].backend = C2_Candidates(r.tier)[i]
             /\ \A i \in 1..(n - 1) : ~Positive(r.checks[i])
    /\ \A c \in Resolved :
          LET r == runs[c]
              n == Len(r.checks)
          IN /\ n >= 1
             /\ Positive(r.checks[n])
             /\ r.worker = C2_Candidates(r.tier)[n]
             /\ r.worker \in workers
    /\ \A c \in Returned :
          (runs[c].kind = "result" /\ runs[c].worker # "") =>
              runs[c].actual = runs[c].worker

\* C2 witness: the registry holds only the third choice of the standard
\* tier's fallback list and a standard Run executes on it.
C2_Witness ==
    /\ workers = {BackendClaudeHaiku}
    /\ \E c \in Resolved :
          /\ runs[c].tier = TierStandard
          /\ runs[c].pc = "executing"
          /\ runs[c].worker = BackendClaudeHaiku

\* C3: a Run whose tier is complex or critical invokes Execute only on
\* claude:opus or claude:sonnet and records only their identity; when neither
\* of the two is registered it invokes no Execute, and a call that resolved no
\* worker returns failed.
C3_CriticalNeverDegrades ==
    LET top == {BackendClaudeOpus, BackendClaudeSonnet}
        high(c) == runs[c].pc # "idle" /\ runs[c].tier \in {TierComplex, TierCritical}
    IN /\ \A c \in Callers :
             high(c) =>
                 /\ runs[c].worker \in top \cup {""}
                 /\ runs[c].executes > 0 => runs[c].worker \in top
                 /\ workers \cap top = {} => runs[c].executes = 0 /\ c \notin Resolved
                 /\ (c \in Returned /\ runs[c].worker = "") =>
                        runs[c].kind = "result" /\ runs[c].status = StatusFailed
       /\ \A e \in DOMAIN executions :
             tasks[executions[e].task_id].tier \in {TierComplex, TierCritical} =>
                 executions[e].backend \in top

\* C3 witness: a critical Run returned failed while only backends outside
\* claude:opus and claude:sonnet are registered.
C3_Witness ==
    /\ BackendClaudeHaiku \in workers /\ BackendOllama \in workers
    /\ \E c \in Returned :
          /\ runs[c].tier = TierCritical
          /\ runs[c].status = StatusFailed /\ runs[c].worker = ""

\* The Execute calls in flight on one handle of backend b: the registered
\* one (k = 0) or the k-th of those that were replaced.
C4_InFlightOn(b, k) ==
    {c \in Callers : runs[c].inExecute /\ runs[c].worker = b /\ runs[c].replaced = k}

\* C4 (as claimed): at most one Execute call is in flight on a worker handle
\* at any time.
C4_MutualExclusion ==
    \A b \in Backends, k \in 0..Cardinality(Callers) :
        Cardinality(C4_InFlightOn(b, k)) <= 1

\* C5 (as claimed): a handle's availability flag is true exactly when no
\* Execute call is in flight on it; the handle is the one the registry holds.
C5_FlagTracksExecute ==
    \A b \in Backends : available[b] = (C4_InFlightOn(b, 0) = {})

\* The status changes the state machine allows on a task row.
C6_Forward ==
    {<<StatusPending, StatusWorking>>, <<StatusWorking, StatusValidating>>,
     <<StatusWorking, StatusDone>>, <<StatusWorking, StatusFailed>>}

\* C6: every task row is created with status pending and every change of a
\* row's status is a forward step pending -> working -> validating | done |
\* failed; no row is removed and a row that is done or failed never changes.
C6_StatusForwardOnly ==
    [][/\ DOMAIN tasks \subseteq DOMAIN tasks'
       /\ \A id \in DOMAIN tasks' :
             IF id \in DOMAIN tasks
             THEN \/ tasks'[id].status = tasks[id].status
                  \/ <<tasks[id].status, tasks'[id].status>> \in C6_Forward
             ELSE tasks'[id].status = StatusPending]_vars

\* C6 witness: after two Runs one task row is done and the other failed.
C6_Witness ==
    \E i, j \in DOMAIN tasks :
        tasks[i].status = StatusDone /\ tasks[j].status = StatusFailed

\* C7 (as claimed): a Run one of whose ledger statements returned an error
\* returns a Go error to its caller.
C7_LedgerErrorReturned ==
    \A c \in Callers :
        (runs[c].pc = "done" /\ runs[c].ledgerErr) => runs[c].kind = "error"

\* C8: the Status of every RunResult a Run returns is done, failed or
\* validating.
C8_TerminalStatus ==
    \A c \in Callers :
        (runs[c].pc = "done" /\ runs[c].kind = "result") =>
            runs[c].status \in {StatusDone, StatusFailed, StatusValidating}

\* C8 witness: the two Runs returned results with different statuses, one of
\* them validating.
C8_Witness ==
    \E c, d \in Returned :
        /\ runs[c].kind = "result" /\ runs[c].status = StatusValidating
        /\ runs[d].kind = "result" /\ runs[d].status = StatusFailed

\* C9 (as claimed): a Run that returns a result after a successful Execute
\* has ValidationRequired set and Status validating when the tier's
\* ValidatorCount is above 0, and Status done otherwise, which is exactly
\* for the trivial tier; the task row holds that status.
C9_SuccessStatus ==
    \A c \in Returned :
        (runs[c].kind = "result" /\ runs[c].outcome = "ok") =>
            LET required == DefaultTierConfigs[runs[c].tier].ValidatorCount > 0
            IN /\ runs[c].validationRequired = required
               /\ runs[c].status = IF required THEN StatusValidating ELSE StatusDone
               /\ (runs[c].status = StatusDone) = (runs[c].tier = TierTrivial)
               /\ tasks[runs[c].taskId].status = runs[c].status

\* C10: every row of the executions table references a row of the tasks
\* table.
C10_ExecutionReferencesTask ==
    \A e \in DOMAIN executions : executions[e].task_id \in DOMAIN tasks

\* C10 witness: two execution rows reference two different tasks.
C10_Witness ==
    \E e, f \in DOMAIN executions : executions[e].task_id # executions[f].task_id

----------------------------------------------------------------------------
\* Properties of the Classifier.

\* The lower-cased text of the input and whether Classify has returned.
C_Text == Text(title, description)
C_Classified == classification # NoClassification

\* The tiers whose accumulated weight is maximal among the tiers with a match.
C_TopTiers(scores) == {t \in DOMAIN scores : \A u \in DOMAIN scores : scores[u] <= scores[t]}

\* No cue of estimateLines or estimateFiles occurs in the text: the estimates
\* are the defaults, 50 lines and 2 files.
C_NoScopeCue(text) ==
    /\ \A cue \in {"small", "minor", "large", "major", "significant", "entire", "complete",
                    "full", "across", "throughout", "codebase", "project-wide"} :
          ~Contains(text, <<cue>>)
    /\ \A first \in {"single", "one"}, second \in {"line", "file"} :
          ~Contains(text, <<first, second>>)
    /\ ~Contains(text, <<"few", "lines">>) /\ ~Contains(text, <<"this", "file">>)
    /\ ~Contains(text, <<"multiple", "file">>) /\ ~Contains(text, <<"several", "file">>)

\* C11 (as claimed): Classify is deterministic: a call on the input returns
\* the same tier, confidence and pattern list as the call before it on the
\* same input, also when two tiers accumulate the same top score.
C11_Deterministic ==
    [][C_Classified =>
          /\ classification'.Tier = classification.Tier
          /\ classification'.Confidence = classification.Confidence
          /\ classification'.Patterns = classification.Patterns]_vars

\* C12: before the scope adjustment Classify selects a tier whose accumulated
\* weight is maximal among the tiers with a match and reports the names of
\* the patterns of that tier that match; when the patterns of one tier only
\* match and no scope cue applies, the result is that tier.
C12_HighestScore ==
    LET maps == ScoreMaps(C_Text)
    IN (C_Classified /\ DOMAIN maps.scores # {}) =>
          /\ \E t \in C_TopTiers(maps.scores) :
                /\ classification.Patterns = maps.matchedPatterns[t]
                /\ classification.Tier =
                      adjustTierByScope(t, classification.EstimatedLines,
                                        classification.EstimatedFiles)
          /\ \A t \in Tiers :
                (DOMAIN maps.scores = {t} /\ C_NoScopeCue(C_Text)) => classification.Tier = t

\* C12 witness: patterns of the standard and of the critical tier match, and
\* Classify reports the critical tier with its accumulated two patterns.
C12_Witness ==
    /\ C_Classified
    /\ ScoredTiers(C_Text) = {TierStandard, TierCritical}
    /\ classification.Tier = TierCritical
    /\ classification.Patterns = <<"security", "payments">>

\* C13: when no pattern of any tier and no scope cue matches the text,
\* Classify returns the standard tier with confidence 0.5 and an empty
\* pattern list.
C13_DefaultTier ==
    (C_Classified /\ ScoredTiers(C_Text) = {} /\ C_NoScopeCue(C_Text)) =>
        /\ classification.Tier = TierStandard
        /\ classification.Confidence = 500
        /\ classification.Patterns = <<>>
        /\ classification.EstimatedLines = 50 /\ classification.EstimatedFiles = 2

\* C13 witness: Classify has returned the default for "validation add",
\* whose words match a pattern only in the other order.
C13_Witness ==
    /\ C_Classified
    /\ title = <<"validation", "add">> /\ description = <<>>
    /\ classification.Tier = TierStandard /\ classification.Confidence = 500

\* The text has the cues across, entire and codebase, no other word than
\* those of "across the entire codebase", and no pattern matches it.
C14_OnlyScopeSignals(text) ==
    /\ \A i \in DOMAIN text : text[i] \in {"across", "the", "entire", "codebase"}
    /\ \A cue \in {"across", "entire", "codebase"} : Contains(text, <<cue>>)
    /\ ScoredTiers(text) = {}

\* C14 (as claimed): for a text whose only signals are the words of "across
\* the entire codebase", Classify returns a tier of at least complex.
C14_ScopeEscalation ==
    (C_Classified /\ C14_OnlyScopeSignals(C_Text)) => classification.Tier >= TierComplex

\* C15 (as claimed): for a text that matches a pattern of the standard tier,
\* contains "this file" and has no cue of a large scope, Classify returns a
\* tier of at most simple.
C15_ScopeDeescalation ==
    (/\ C_Classified
     /\ TierStandard \in ScoredTiers(C_Text)
     /\ Contains(C_Text, <<"this", "file">>)
     /\ \A cue \in {"large", "major", "significant", "entire", "complete", "full",
                     "across", "throughout", "codebase", "project-wide"} :
           ~Contains(C_Text, <<cue>>))
        => classification.Tier <= TierSimple

\* The primary backend of each tier as the policy table is stated.
C16_Primary ==
    (TierTrivial :> "ollama:fast") @@ (TierSimple :> "ollama:default") @@
    (TierStandard :> "claude:sonnet") @@ (TierComplex :> "claude:sonnet") @@
    (TierCritical :> "claude:opus")

\* C16: for every input the backend Classify recommends is the policy
\* table's primary backend of the tier it returns, and the task row Run
\* creates stores the tier and the backend of its classification.
C16_RecommendedBackend ==
    /\ \A cls \in Routings : cls.RecommendedBackend = C16_Primary[cls.Tier]
    /\ \A id \in DOMAIN tasks :
          /\ [Tier |-> tasks[id].tier, RecommendedBackend |-> tasks[id].worker_backend]
                \in Routings
          /\ tasks[id].worker_backend = C16_Primary[tasks[id].tier]
    /\ \A c \in Callers :
          runs[c].taskId # 0 => tasks[runs[c].taskId].tier = runs[c].tier

\* C16 witness: Run has created a row of the simple tier for ollama:default
\* and a row of the critical tier for claude:opus.
C16_Witness ==
    \E i, j \in DOMAIN tasks :
        /\ tasks[i].tier = TierSimple /\ tasks[i].worker_backend = BackendOllama
        /\ tasks[j].tier = TierCritical /\ tasks[j].worker_backend = BackendClaudeOpus

----------------------------------------------------------------------------
\* Properties of DryRun, of cancellation, of retries and of `bigo run`.

\* A step of the DryRun call of c: its Classify, its first lookup, or a
\* step of its findFallbackWorker.
C17_DryRunStep(c) ==
    \/ runs[c].pc = "idle" /\ runs'[c].pc = "dryfind"
    \/ /\ runs[c].pc \in {"dryfind", "dryfallback"}
       /\ runs'[c].pc \in {"dryfallback", "done"}
       /\ runs'[c] # runs[c]

\* C17: DryRun is a pure preview: no step of a caller's DryRun, from its
\* call to its return, invokes an Execute, writes an execution row, changes a
\* task row, or changes the registry or an availability flag.
C17_DryRunPure ==
    [][\A c \in Callers :
          C17_DryRunStep(c) =>
              /\ workers' = workers
              /\ available' = available
              /\ tasks' = tasks
              /\ executions' = executions
              /\ \A d \in Callers : runs'[d].executes = runs[d].executes
              /\ \A d \in Callers \ {c} : runs'[d] = runs[d]]_vars

\* C17 witness: DryRun has returned a preview with a fallback backend because
\* the registered handle of the recommended backend was busy, with a task row
\* in the ledger.
C17_Witness ==
    \E c \in Callers :
        /\ runs[c].kind = "preview"
        /\ runs[c].actual \in workers /\ ~runs[c].workerAvailable
        /\ runs[c].fallbackBackend # ""
        /\ DOMAIN tasks # {}

\* C18 (as claimed): a Run whose context is cancelled when it reaches the
\* worker-execute step does not invoke Execute.
C18_CancelObserved ==
    [][\A c \in Callers :
          (c \in cancelled /\ runs[c].pc = "execute") =>
              runs'[c].executes = runs[c].executes]_vars

\* C19 (as claimed): a Run invokes Execute at most once; after an Execute
\* that returned an error or a result with Success=false it invokes no other
\* Execute, the task row is failed and Run returns Status=failed with the
\* error text.
C19_NoRetries ==
    \A c \in Callers :
        /\ runs[c].executes <= 1
        /\ (c \in Returned /\ runs[c].outcome \in {"fail", "err"}) =>
              /\ runs[c].kind = "result"
              /\ runs[c].status = StatusFailed
              /\ runs[c].error = IF runs[c].outcome = "err" THEN ErrExecute ELSE ErrReported
              /\ tasks[runs[c].taskId].status = StatusFailed

\* C20: in `bigo run` the quota checks come before any registration; after a
\* quota check of Claude or Gemini that returned an error no handle of that
\* class is registered and no Execute runs on a backend of that class; and a
\* Run that resolved another backend is not failed by the quota error: it
\* returns an error only after a ledger error, and after a successful
\* Execute it returns done or validating.
C20_QuotaDisables ==
    LET unused(class) ==
            /\ workers \cap class = {}
            /\ \A c \in Callers : runs[c].worker \notin class
            /\ \A e \in DOMAIN executions : executions[e].backend \notin class
    IN /\ cli.pc \in {"claude", "gemini"} => workers = {}
       /\ cli.claudeQuotaErr => unused(ClaudeBackends)
       /\ cli.geminiQuotaErr => unused(GeminiBackends)
       /\ \A c \in Returned :
             ((cli.claudeQuotaErr \/ cli.geminiQuotaErr) /\ runs[c].worker # "") =>
                 /\ runs[c].kind = "error" => runs[c].ledgerErr
                 /\ (runs[c].kind = "result" /\ runs[c].outcome = "ok") =>
                        /\ runs[c].status \in {StatusDone, StatusValidating}
                        /\ runs[c].error = NoError

\* C20 witness: the Claude quota check failed with Claude models configured,
\* and the Run of a standard task returned validating from ollama:reasoning.
C20_Witness ==
    /\ cli.claudeQuotaErr /\ cli.cfg.Claude.Models # {}
    /\ \E c \in Returned :
          /\ runs[c].tier = TierStandard
          /\ runs[c].status = StatusValidating
          /\ runs[c].actual = BackendOllamaReason

----------------------------------------------------------------------------
\* Properties of the registry.

\* C24: the registry maps each backend identity to one handle of that
\* identity, and the identity of the handle registered last to that handle;
\* a registration sets the entry of the handle's identity, leaves the entries
\* of the other identities as they were, and registering the same handle
\* again changes nothing.
C24_LastRegistrationWins ==
    /\ [](\A b \in DOMAIN workers : workers[b].backend = b)
    /\ [](lastCall.op = "RegisterWorker" => workers[lastCall.w.backend] = lastCall.w)
    /\ [][\A w \in Handles :
             RegisterHandle(w) =>
                 /\ DOMAIN workers' = DOMAIN workers \cup {w.backend}
                 /\ workers'[w.backend] = w
                 /\ \A b \in DOMAIN workers \ {w.backend} : workers'[b] = workers[b]
                 /\ Registered(workers', w) = workers']_vars

\* C24 witness: the second handle of claude:sonnet was registered last and is
\* the entry of claude:sonnet, next to the first handle of ollama:default.
C24_Witness ==
    /\ lastCall.op = "RegisterWorker"
    /\ lastCall.w = [id |-> "w2", backend |-> BackendClaudeSonnet]
    /\ DOMAIN workers = {BackendClaudeSonnet, BackendOllama}
    /\ workers[BackendClaudeSonnet].id = "w2" /\ workers[BackendOllama].id = "w1"

----------------------------------------------------------------------------
\* Properties of adjustTierByScope.

C25_Max(a, b) == IF a >= b THEN a ELSE b
C25_Min(a, b) == IF a <= b THEN a ELSE b

\* C25: adjustTierByScope is a clamp: the result is the larger of the tier
\* and complex when lines > 500 or files > 10, else the larger of the tier and
\* standard when lines > 200 or files > 5, else the smaller of the tier and
\* simple when lines < 10 and files = 1, else the tier; it lowers no tier on
\* an escalation condition and raises none on the de-escalation condition.
C25_Clamp ==
    lastCall.op = "adjustTierByScope" =>
        LET tier == lastCall.tier
            lines == lastCall.lines
            files == lastCall.files
            result == lastCall.result
        IN /\ result =
                 IF lines > 500 \/ files > 10 THEN C25_Max(tier, TierComplex)
                 ELSE IF lines > 200 \/ files > 5 THEN C25_Max(tier, TierStandard)
                 ELSE IF lines < 10 /\ files = 1 THEN C25_Min(tier, TierSimple)
                 ELSE tier
           /\ (lines > 200 \/ files > 5) => result >= tier
           /\ (lines < 10 /\ files = 1) => result <= tier

\* C25 witness: a critical tier with 501 lines in 1 file stays critical.
C25_Witness ==
    /\ lastCall.op = "adjustTierByScope"
    /\ lastCall.tier = TierCritical /\ lastCall.lines = 501 /\ lastCall.files = 1
    /\ lastCall.result = TierCritical

----------------------------------------------------------------------------
\* Properties of the Ledger.

\* GetStats has returned statistics, and no statement of another connection
\* has committed since the call started: the rows are those the call read.
C_Stats == statsCall.pc = StatsDone /\ ~statsCall.err /\ ~statsCall.stale

\* The execution rows of the backends of a class, and the sum of their costs
\* as the sum over the amounts of amount times number of rows.
C21_RowsOf(class) == {e \in DOMAIN executions : executions[e].backend \in class}
RECURSIVE C21_Cost(_, _)
C21_Cost(ids, amount) ==
    IF amount = 0 THEN 0
    ELSE amount * Cardinality({e \in ids : executions[e].cost_usd = amount})
            + C21_Cost(ids, amount - 1)

\* C21: the statistics GetStats returns are those of the rows in the ledger:
\* TotalTasks is the number of task rows, CompletedTasks the number of task
\* rows with status done, TotalExecutions the number of execution rows, and
\* for each of the classes claude, gemini and ollama the count and the summed
\* cost are those of the execution rows whose backend is of the class.
C21_StatsRoundTrip ==
    C_Stats =>
        LET stats == statsCall.stats
            ollama == {BackendOllamaFast, BackendOllama, BackendOllamaReason}
        IN /\ stats.TotalTasks = Cardinality(DOMAIN tasks)
           /\ stats.CompletedTasks =
                 Cardinality({id \in DOMAIN tasks : tasks[id].status = StatusDone})
           /\ stats.TotalExecutions = Cardinality(DOMAIN executions)
           /\ stats.ClaudeTasks = Cardinality(C21_RowsOf(ClaudeBackends))
           /\ stats.ClaudeCost = C21_Cost(C21_RowsOf(ClaudeBackends), 5)
           /\ stats.GeminiTasks = Cardinality(C21_RowsOf(GeminiBackends))
           /\ stats.GeminiCost = C21_Cost(C21_RowsOf(GeminiBackends), 5)
           /\ stats.OllamaTasks = Cardinality(C21_RowsOf(ollama))
           /\ stats.OllamaCost = C21_Cost(C21_RowsOf(ollama), 5)

\* C21 witness: GetStats has returned 2 tasks, 1 of them done, and 2 Gemini
\* executions that cost 1 and 5 cents.
C21_Witness ==
    /\ C_Stats
    /\ statsCall.stats.TotalTasks = 2 /\ statsCall.stats.CompletedTasks = 1
    /\ statsCall.stats.TotalExecutions = 2
    /\ statsCall.stats.GeminiTasks = 2 /\ statsCall.stats.GeminiCost = 6

\* C22: after a CreateTask that succeeded, GetTask of the task's id returns
\* the title, description, tier, status and backend of the task; after an
\* UpdateTaskStatus of an existing row, GetTask of its id returns the new
\* status and the other fields as they were, and no other row has changed.
C22_RoundTrip ==
    [][/\ \A task \in LedgerTasks :
             (LedgerCreateTask(task, FALSE) /\ ~lastCall'.err) =>
                 GetTask(task.ID)' = [err |-> FALSE, task |-> task]
       /\ \A id \in DOMAIN tasks, status \in TaskStatuses :
             LedgerUpdateTaskStatus(id, status, FALSE) =>
                 /\ GetTask(id)' = [err |-> FALSE,
                                    task |-> [GetTask(id).task EXCEPT !.Status = status]]
                 /\ DOMAIN tasks' = DOMAIN tasks
                 /\ \A other \in DOMAIN tasks \ {id} : tasks'[other] = tasks[other]
       /\ \A id \in LedgerTaskIDs :
             LedgerGetTask(id, FALSE) => lastCall'.got = GetTask(id)]_vars

\* C22 witness: GetTask has returned the first task with the status approved
\* it was updated to, next to the row of the second task as it was created.
C22_Witness ==
    /\ lastCall.op = "GetTask" /\ ~lastCall.got.err
    /\ lastCall.got.task =
          Task("task-1", "Test Task", "Description", TierStandard, StatusApproved,
               BackendGeminiPro)
    /\ "task-2" \in DOMAIN tasks /\ tasks["task-2"].status = StatusDone

\* C29 (as claimed): PendingTasks is the number of task rows whose status is
\* neither done nor failed, so that TotalTasks is the sum of PendingTasks,
\* CompletedTasks and the number of failed rows.
C29_PendingIsNonTerminal ==
    C_Stats =>
        LET stats == statsCall.stats
            failed == Cardinality({id \in DOMAIN tasks : tasks[id].status = StatusFailed})
        IN /\ stats.PendingTasks =
                 Cardinality({id \in DOMAIN tasks :
                                 tasks[id].status \notin {StatusDone, StatusFailed}})
           /\ stats.TotalTasks = stats.PendingTasks + stats.CompletedTasks + failed

----------------------------------------------------------------------------
\* Properties of the pipeline of Run.

\* A step keeps every task row under its id, with its tier and its backend.
C23_RowsKept ==
    \A id \in DOMAIN tasks :
        /\ id \in DOMAIN tasks'
        /\ tasks'[id].tier = tasks[id].tier
        /\ tasks'[id].worker_backend = tasks[id].worker_backend

\* The step in which the Run of c calls CreateTask adds a row under an id that
\* no row has and changes no other row, or it changes nothing in the ledger,
\* reserves no handle and returns an error.
C23_Created(c) ==
    IF runs'[c].taskId # 0
    THEN /\ runs'[c].taskId \notin DOMAIN tasks
         /\ DOMAIN tasks' = DOMAIN tasks \cup {runs'[c].taskId}
         /\ \A id \in DOMAIN tasks : tasks'[id] = tasks[id]
    ELSE /\ runs'[c].kind = "error"
         /\ tasks' = tasks /\ executions' = executions /\ available' = available

\* C23: no operation changes or removes an existing task row; a Run creates
\* its row under an id that no row has, so that no two Runs share a row; and
\* a Run whose CreateTask fails, as it does when the id it generated is
\* present, leaves the ledger as it is and returns an error without executing
\* anything.
C23_UniqueTaskIDs ==
    /\ [](\A c, d \in Callers :
             (c # d /\ runs[c].taskId # 0) => runs[c].taskId # runs[d].taskId)
    /\ [](\A c \in Callers :
             runs[c].error = ErrUnique =>
                 /\ runs[c].pc = "done" /\ runs[c].kind = "error"
                 /\ runs[c].taskId = 0 /\ runs[c].executes = 0)
    /\ [][C23_RowsKept]_vars
    /\ [][\A c \in Callers :
             (runs[c].pc = "idle" /\ runs'[c].pc # "idle") => C23_Created(c)]_vars

\* C23 witness: a Run has returned the error of the primary key for the id
\* of the row that the other Run created and has moved to validating.
C23_Witness ==
    \E c, d \in Callers :
        /\ runs[c].pc = "done" /\ runs[c].error = ErrUnique
        /\ runs[d].taskId # 0 /\ DOMAIN tasks = {runs[d].taskId}
        /\ tasks[runs[d].taskId].status = StatusValidating

\* C26 (as claimed): every Run that has returned called Classify once, the
\* fallback resolver at most once, Execute exactly once, and the Ledger
\* between two and four times.
C26_CallCounts ==
    \A c \in Returned :
        /\ runs[c].classifyCalls = 1
        /\ runs[c].fallbackCalls <= 1
        /\ runs[c].executes = 1
        /\ runs[c].ledgerCalls \in 2..4

\* The number of Ledger calls of a returned Run, by the path it took.
C26_LedgerCallsOf(r) ==
    CASE r.kind = "error" /\ r.taskId = 0 -> 1
      [] r.kind = "error" /\ r.taskId # 0 /\ r.outcome = "" -> 2
      [] r.kind = "error" /\ r.taskId # 0 /\ r.outcome # "" -> 3
      [] r.kind = "result" /\ r.worker = "" -> 1
      [] r.kind = "result" /\ r.worker # "" /\ r.status = StatusFailed -> 3
      [] OTHER -> 4

\* C26 (amended): a Run calls Classify exactly once, the fallback resolver at
\* most once and only when the primary was not usable, and Execute at most
\* once, on the one worker it resolved; a returned Run has called Execute
\* exactly once when it persisted the status working and not at all when
\* CreateTask, the resolution or the working update failed; and it has called
\* the Ledger once when CreateTask or the resolution failed, twice when the
\* working update failed, three times when Execute failed or CreateExecution
\* failed, and four times when it succeeded.
C26_CallCountsByPath ==
    \A c \in Callers :
        LET r == runs[c]
        IN /\ r.classifyCalls = IF r.pc = "idle" THEN 0 ELSE 1
           /\ r.fallbackCalls <= 1
           /\ r.executes <= 1
           /\ r.ledgerCalls <= 4
           /\ (r.worker = "" /\ r.pc = "done" /\ r.kind = "result") => r.fallbackCalls = 1
           /\ (r.executes = 1) => r.worker # ""
           /\ r.pc = "done" =>
                 /\ r.executes = IF r.outcome # "" THEN 1 ELSE 0
                 /\ (r.kind = "result" /\ r.worker # "") => r.executes = 1
                 /\ (r.kind = "result" /\ r.worker = "") => r.executes = 0
                 /\ r.ledgerCalls = C26_LedgerCallsOf(r)
                 /\ (r.kind = "result" /\ r.status # StatusFailed) => r.ledgerCalls = 4

\* C26 witness: one Run has failed at resolution after one call of the
\* fallback resolver, one Ledger call and no Execute, and another has
\* succeeded on a fallback worker after one Execute and four Ledger calls.
C26_Witness ==
    \E c, d \in Returned :
        /\ runs[c].kind = "result" /\ runs[c].worker = ""
        /\ runs[c].fallbackCalls = 1 /\ runs[c].ledgerCalls = 1 /\ runs[c].executes = 0
        /\ runs[d].kind = "result" /\ runs[d].status = StatusDone
        /\ runs[d].fallbackCalls = 1 /\ runs[d].ledgerCalls = 4 /\ runs[d].executes = 1

\* C27: when Execute starts and while it runs, the status of the task row is
\* working; a Run that has invoked Execute has persisted working before; and
\* a Run whose UpdateTaskStatus(working) failed returns an error and has
\* invoked no Execute.
C27_WorkingBeforeExecute ==
    \A c \in Callers :
        /\ runs[c].pc \in {"execute", "executing"} =>
              tasks[runs[c].taskId].status = StatusWorking
        /\ runs[c].executes > 0 =>
              /\ runs[c].taskId # 0
              /\ tasks[runs[c].taskId].status # StatusPending
        /\ (c \in Returned /\ runs[c].worker # "" /\ runs[c].outcome = "") =>
              /\ runs[c].kind = "error"
              /\ runs[c].executes = 0
              /\ tasks[runs[c].taskId].status = StatusPending

\* C27 witness: a Run returned the error of the working update, with its
\* worker resolved and its row still pending, while the other Run executes.
C27_Witness ==
    \E c \in Returned, d \in Callers :
        /\ runs[c].kind = "error" /\ runs[c].worker # "" /\ runs[c].outcome = ""
        /\ runs[d].pc = "executing"

\* C28: after a Run that failed at worker resolution, the task row is as it
\* was created, with status pending and the recommended backend of its tier,
\* while the RunResult has Status failed.
C28_ResolutionFailureKeepsRow ==
    \A c \in Returned :
        (runs[c].kind = "result" /\ runs[c].worker = "") =>
            /\ runs[c].status = StatusFailed
            /\ tasks[runs[c].taskId] =
                  TaskRow(runs[c].tier, StatusPending, recommendBackend(runs[c].tier))

\* C28 witness: a Run of a trivial task has failed at resolution with its
\* row pending, next to the row of a Run that is done.
C28_Witness ==
    \E c, d \in Returned :
        /\ runs[c].kind = "result" /\ runs[c].worker = "" /\ runs[c].tier = TierTrivial
        /\ tasks[runs[c].taskId].status = StatusPending
        /\ runs[d].status = StatusDone /\ tasks[runs[d].taskId].status = StatusDone

\* C30 (as claimed): a Run that resolved its worker through the fallback
\* path, after the lookup of the primary backend found no usable handle, has
\* an ActualBackend that differs from the RecommendedBackend.
C30_FallbackDiffers ==
    \A c \in Resolved :
        Len(runs[c].checks) >= 2 => runs[c].worker # recommendBackend(runs[c].tier)

\* C31 (as claimed): when a Run returns a RunResult for a task on which
\* Execute was invoked, the status of the task row is the Status of the
\* RunResult, whether or not a ledger statement of the Run failed.
C31_PersistedStatus ==
    \A c \in Returned :
        (runs[c].kind = "result" /\ runs[c].executes > 0) =>
            tasks[runs[c].taskId].status = runs[c].status

\* C32 (as claimed): the task row of a Run that has returned, with a result
\* or with an error, is not in status working.
C32_NoRowLeftWorking ==
    \A c \in Returned : tasks[runs[c].taskId].status # StatusWorking

\* C33: a task whose Run returned Status done or validating has exactly one
\* execution row, a task whose Run returned anything else has none, and no
\* task ever has more than one; every execution row has status completed,
\* and its backend is the handle on which the Run of its task invoked Execute
\* with success.
C33_ExecutionRows ==
    /\ \A c \in Callers :
          runs[c].taskId # 0 =>
              LET rows == ExecutionsOf(runs[c].taskId)
              IN /\ Cardinality(rows) <= 1
                 /\ c \in Returned =>
                       Cardinality(rows) =
                           IF /\ runs[c].kind = "result"
                              /\ runs[c].status \in {StatusDone, StatusValidating}
                           THEN 1 ELSE 0
                 /\ rows # {} => runs[c].outcome = "ok" /\ runs[c].executes = 1
    /\ \A e \in DOMAIN executions :
          /\ executions[e].status = "completed"
          /\ \E c \in Callers :
                /\ runs[c].taskId = executions[e].task_id
                /\ runs[c].worker = executions[e].backend

\* C33 witness: one Run returned validating from a fallback worker with its
\* execution row written, and the other returned failed after an Execute that
\* failed, with no execution row.
C33_Witness ==
    \E c, d \in Returned :
        /\ runs[c].kind = "result" /\ runs[c].status = StatusValidating
        /\ runs[c].worker # recommendBackend(runs[c].tier)
        /\ Cardinality(ExecutionsOf(runs[c].taskId)) = 1
        /\ runs[d].kind = "result" /\ runs[d].outcome = "fail"
        /\ ExecutionsOf(runs[d].taskId) = {}

\* The lookup step of the Run of c: the next lookup of its resolution.
C34_Lookup(c) == RunFindWorker(c) \/ RunFindFallbackWorker(c)

\* C34: a Run never waits for a busy handle.  While it resolves its worker
\* its next lookup can always be taken, whatever the availability flags are;
\* every lookup is made once, in the order primary, then fallback list, and
\* none is repeated; a lookup that finds the handle busy is followed by the
\* next lookup; the Run goes on with the first handle a lookup found usable,
\* and when the last lookup has failed it returns Status=failed with "no
\* available worker for this task tier".  The steps meant are those of the
\* Run; the runtime stopping the program during a lookup is not one of them.
C34_NeverWaits ==
    /\ [](\A c \in Callers :
             runs[c].pc \in {"find", "fallback"} => ENABLED C34_Lookup(c))
    /\ [][\A c \in Callers :
             LET r == runs[c]
                 s == runs'[c]
                 list == fallbacks(r.tier)
             IN (r.pc \in {"find", "fallback"} /\ s # r /\ s.pc # "fatal") =>
                    /\ r.pc = "find" =>
                          /\ s.checks = <<Observe(recommendBackend(r.tier))>>
                          /\ IF Usable(recommendBackend(r.tier))
                             THEN s.pc = "update" /\ s.worker = recommendBackend(r.tier)
                             ELSE s.pc = "fallback" /\ s.fbidx = 1
                    /\ (r.pc = "fallback" /\ r.fbidx <= Len(list)) =>
                          /\ s.checks = Append(r.checks, Observe(list[r.fbidx]))
                          /\ NoneUsable(r.checks)
                          /\ IF Usable(list[r.fbidx])
                             THEN s.pc = "update" /\ s.worker = list[r.fbidx]
                             ELSE s.pc = "fallback" /\ s.fbidx = r.fbidx + 1
                    /\ (r.pc = "fallback" /\ r.fbidx > Len(list)) =>
                          /\ Len(r.checks) = 1 + Len(list)
                          /\ NoneUsable(r.checks)
                          /\ s.pc = "done" /\ s.kind = "result"
                          /\ s.status = StatusFailed /\ s.error = ErrNoWorker
                          /\ s.executes = 0
                    /\ available' = available]_vars

\* C34 witness: a Run has returned the resolution failure while the handle of
\* its primary backend is registered and free again, after the Execute of the
\* other Run on that handle has returned.
C34_Witness ==
    \E c, d \in Returned :
        /\ c # d
        /\ runs[c].kind = "result" /\ runs[c].error = ErrNoWorker
        /\ runs[d].worker = recommendBackend(runs[c].tier)
        /\ runs[d].executes = 1
        /\ Usable(recommendBackend(runs[c].tier))

\* The lookups of two calls read the same registry and availability: no
\* backend was found usable by one lookup and not usable by another.
C35_SameReads(checks) ==
    \A i, j \in DOMAIN checks :
        checks[i].backend = checks[j].backend => Positive(checks[i]) = Positive(checks[j])

\* The DryRun call of d has returned, it and the Run of c were given the same
\* tier, and their lookups read the same registry and availability.
C35_SameState(c, d) ==
    /\ runs[d].kind = "preview"
    /\ runs[d].tier = runs[c].tier
    /\ C35_SameReads(runs[c].checks \o runs[d].checks)

\* The Run of c has made its last lookup without finding a usable handle: it
\* is about to return the resolution failure.
C35_Fails(c) ==
    runs[c].pc = "fallback" /\ runs[c].fbidx > Len(fallbacks(runs[c].tier))

\* C35: the preview of DryRun agrees with the resolution of a Run of the same
\* tier that read the same registry and availability.  WorkerAvailable is
\* true exactly when the Run executes on the recommended backend; when it is
\* false FallbackBackend is the backend the Run executes on, and it is empty
\* exactly when the Run fails for want of a worker; ValidationRequired is
\* that of the Run's result when it succeeds.
C35_PreviewAgrees ==
    /\ \A c, d \in Callers :
          LET r == runs[c]
              p == runs[d]
          IN /\ (c \in Resolved /\ C35_SameState(c, d)) =>
                   /\ p.workerAvailable = (r.worker = recommendBackend(r.tier))
                   /\ p.actual = recommendBackend(r.tier)
                   /\ ~p.workerAvailable => p.fallbackBackend = r.worker
                   /\ p.workerAvailable => p.fallbackBackend = ""
             /\ (C35_Fails(c) /\ C35_SameState(c, d)) =>
                   ~p.workerAvailable /\ p.fallbackBackend = ""
    /\ \A c \in Returned, d \in Callers :
          (runs[d].kind = "preview" /\ runs[d].tier = runs[c].tier
              /\ runs[c].kind = "result" /\ runs[c].status # StatusFailed) =>
                 runs[d].validationRequired = runs[c].validationRequired

\* C35 witness: while the handle of the recommended backend was busy in an
\* Execute, DryRun previewed a fallback backend, and the Run, of the same tier
\* and reading the same state, has resolved that backend.
C35_Witness ==
    \E c, d \in Callers :
        /\ c \in Resolved /\ C35_SameState(c, d)
        /\ recommendBackend(runs[c].tier) \in workers
        /\ ~runs[d].workerAvailable
        /\ runs[d].fallbackBackend = runs[c].worker
        /\ runs[c].worker # recommendBackend(runs[c].tier)
        /\ runs[d].checks[1].registered

----------------------------------------------------------------------------
\* Properties of `bigo run`, with and without --dry-run.

\* What a Run of the tier resolves on a registry whose handles are all
\* available, as they are when `bigo run` has just registered them.
C36_RunBackend(tier, registry) ==
    LET candidates == <<recommendBackend(tier)>> \o fallbacks(tier)
        found == {i \in DOMAIN candidates : candidates[i] \in registry}
    IN IF found = {} THEN ""
       ELSE candidates[CHOOSE i \in found : \A j \in found : i <= j]

\* C36 (as claimed): the preview of `bigo run -n` is taken on the registry
\* that `bigo run` fills under the same configuration: WorkerAvailable says
\* whether the recommended backend is registered, and when it is not,
\* FallbackBackend is the backend a real run would execute on.
C36_PreviewOnRegistry ==
    \A c \in Callers :
        runs[c].kind = "preview" =>
            LET registry == RegisteredByCommand(cli.cfg)
            IN /\ workers = registry
               /\ runs[c].workerAvailable = (runs[c].actual \in registry)
               /\ ~runs[c].workerAvailable =>
                     runs[c].fallbackBackend = C36_RunBackend(runs[c].tier, registry)

\* C37 (as claimed): `bigo run` without --dry-run does not crash when the
\* ledger was not opened: no Run panics.
C37_NoCrashWithoutLedger ==
    \A c \in Callers : runs[c].kind # "panic"

----------------------------------------------------------------------------
\* Properties of the Pool.

\* C38 (as claimed): a worker that Acquire returned is returned by no other
\* Acquire until it has been passed to Release: no two callers hold the same
\* worker.
C38_Exclusive ==
    \A c, d \in Callers :
        (c # d /\ pool.held[c] # "") => pool.held[c] # pool.held[d]

\* C39 (as claimed): 0 <= ActiveCount <= Size <= maxWorkers, and ActiveCount
\* is the number of workers that were acquired and not yet released.
C39_Counts ==
    /\ 0 <= ActiveCount
    /\ ActiveCount <= Size
    /\ Size <= pool.maxWorkers
    /\ ActiveCount = Cardinality({c \in Callers : pool.held[c] # ""})



====
